---- MODULE Spec2Model ----
(***************************************************************************)
(* MagicRune: the durable message worker (magicrune consume / js_consumer) *)
(* and the CLI executor (magicrune exec), modelled as state machines.      *)
(*                                                                         *)
(* Strings whose content the code inspects (commands, paths, threshold     *)
(* expressions) are sequences of one-character strings, so that the        *)
(* substring tests and the parsers are computed as the code computes them. *)
(* SHA-256 is treated as injective: a digest is represented by its input.  *)
(***************************************************************************)
EXTENDS Integers, Sequences, FiniteSets, TLC

\* ------------------------------------------------------------------ bounds
MaxMsgs == 3        \* deliveries fetched by one worker session
MaxSkipMsgs == 2    \* deliveries fetched in sessions with the skip-ack-once directive
MaxIds == 3         \* distinct message ids the broker hands out
MaxDedupe == 2      \* largest MAGICRUNE_DEDUPE_MAX explored
MaxWall == 1        \* largest limits.wall_sec explored (in poll intervals)
PipeCap == 1        \* bytes a pipe buffers before a writer blocks

\* ------------------------------------------------------- string helpers
Upper == <<"A","B","C","D","E","F","G","H","I","J","K","L","M",
           "N","O","P","Q","R","S","T","U","V","W","X","Y","Z">>
Lower == <<"a","b","c","d","e","f","g","h","i","j","k","l","m",
           "n","o","p","q","r","s","t","u","v","w","x","y","z">>
Digits == <<"0","1","2","3","4","5","6","7","8","9">>
Whitespace == {" ", "\t", "\n", "\r"}

LowerChar(c) ==
    IF \E i \in 1..26 : Upper[i] = c
    THEN Lower[CHOOSE i \in 1..26 : Upper[i] = c]
    ELSE c

\* str::to_lowercase (ASCII letters)
to_lowercase(s) == [i \in 1..Len(s) |-> LowerChar(s[i])]

\* str::starts_with / strip_prefix
starts_with(s, p) == Len(p) <= Len(s) /\ SubSeq(s, 1, Len(p)) = p
DropN(s, n) == SubSeq(s, n + 1, Len(s))

\* str::contains
contains(s, sub) ==
    \E i \in 1..(Len(s) + 1) :
        i + Len(sub) - 1 <= Len(s) /\ SubSeq(s, i, i + Len(sub) - 1) = sub

\* str::find: index of the first occurrence, 0 when there is none
find(s, sub) ==
    IF contains(s, sub)
    THEN CHOOSE i \in 1..(Len(s) + 1) :
            /\ i + Len(sub) - 1 <= Len(s)
            /\ SubSeq(s, i, i + Len(sub) - 1) = sub
            /\ \A j \in 1..(i - 1) : SubSeq(s, j, j + Len(sub) - 1) # sub
    ELSE 0

RECURSIVE trim_start(_)
trim_start(s) ==
    IF Len(s) > 0 /\ s[1] \in Whitespace THEN trim_start(Tail(s)) ELSE s

RECURSIVE trim_end(_)
trim_end(s) ==
    IF Len(s) > 0 /\ s[Len(s)] \in Whitespace
    THEN trim_end(SubSeq(s, 1, Len(s) - 1)) ELSE s

\* str::trim
trim(s) == trim_end(trim_start(s))

IsDigit(c) == \E i \in 1..10 : Digits[i] = c
DigitVal(c) == (CHOOSE i \in 1..10 : Digits[i] = c) - 1

RECURSIVE DecVal(_)
DecVal(s) ==
    IF Len(s) = 0 THEN 0
    ELSE 10 * DecVal(SubSeq(s, 1, Len(s) - 1)) + DigitVal(s[Len(s)])

NoNum == 0 - 1

RECURSIVE strip_zeros(_)
strip_zeros(s) == IF Len(s) > 1 /\ s[1] = "0" THEN strip_zeros(Tail(s)) ELSE s

\* whether a digit string without leading zeros exceeds u32::MAX = 4294967295,
\* compared in two halves so that no intermediate value leaves 32 bits
exceeds_u32(d) ==
    \/ Len(d) > 10
    \/ /\ Len(d) = 10
       /\ LET hi == DecVal(SubSeq(d, 1, 5))
              lo == DecVal(SubSeq(d, 6, 10))
          IN  hi > 42949 \/ (hi = 42949 /\ lo > 67295)

\* values of ten digits are held as 10^9: every score compared with them is
\* far smaller, so each comparison comes out as in the code
Saturated == 10^9

\* u32::from_str: optional '+', at least one digit, no overflow; NoNum on error
u32_from_str(s) ==
    LET body == IF Len(s) > 0 /\ s[1] = "+" THEN Tail(s) ELSE s
        d    == strip_zeros(body)
    IN  IF Len(body) = 0 \/ \E i \in 1..Len(body) : ~IsDigit(body[i])
        THEN NoNum
        ELSE IF exceeds_u32(d) THEN NoNum
        ELSE IF Len(d) = 10 THEN Saturated
        ELSE DecVal(d)

\* ------------------------------------------------------------ thresholds
DefaultThresholds ==
    [green  |-> <<"<","=","2","0">>,
     yellow |-> <<"2","1",".",".","=","6","0">>,
     red    |-> <<">","=","6","1">>]

\* a policy that grades every score above 10 as elevated
StrictThresholds ==
    [green  |-> <<"<","=","1","0">>,
     yellow |-> <<"1","1",".",".","=","2","0">>,
     red    |-> <<">","=","2","1">>]

ThresholdSets == {DefaultThresholds, StrictThresholds}

\* the inner fn matches of decide_verdict_from_thresholds
matches(expr, n) ==
    LET e   == trim(expr)
        le  == IF starts_with(e, <<"<","=">>)
               THEN u32_from_str(trim(DropN(e, 2))) ELSE NoNum
        ge  == IF starts_with(e, <<">","=">>)
               THEN u32_from_str(trim(DropN(e, 2))) ELSE NoNum
        pos == find(e, <<".",".","=">>)
        a   == IF pos > 0 THEN u32_from_str(trim(SubSeq(e, 1, pos - 1))) ELSE NoNum
        b   == IF pos > 0 THEN u32_from_str(trim(DropN(e, pos + 2))) ELSE NoNum
    IN  IF le # NoNum THEN n <= le
        ELSE IF ge # NoNum THEN n >= ge
        ELSE IF a # NoNum /\ b # NoNum THEN n >= a /\ n <= b
        ELSE FALSE

\* a faulty variant: the yellow expression is consulted before the green one
decide_verdict_yellow_first(score, th) ==
    IF matches(th.yellow, score) THEN "yellow"
    ELSE IF matches(th.green, score) THEN "green"
    ELSE "red"

\* fn decide_verdict_from_thresholds (fn decide in js_consumer): green, else
\* yellow, else red

decide_verdict_from_thresholds(score, th) ==
    IF matches(th.green, score) THEN "green"
    ELSE IF matches(th.yellow, score) THEN "yellow"
    ELSE "red"

\* ------------------------------------------------------------ requests
\* Option<u64>: <<>> is None, <<n>> is Some(n)
NoSeed == <<>>

Tmp == <<"t","m","p">>
PathTmpA == <<"/","t","m","p","/","a">>
PathEtcP == <<"/","e","t","c","/","p">>
PathRel  == <<"r","e","l">>
FsTmpAll == <<"/","t","m","p","/","*","*">>

File(p, c) == [path |-> p, content_b64 |-> c]

\* a stdin that does not fit into the pipe buffer
BigStdin == [i \in 1..(PipeCap + 1) |-> "x"]

Req(cmd, stdin, files, allow_net, allow_fs) ==
    [json |-> TRUE, shape |-> TRUE, cmd |-> cmd, stdin |-> stdin, files |-> files,
     allow_net |-> allow_net, allow_fs |-> allow_fs, seed |-> NoSeed,
     env |-> <<>>, timeout_sec |-> 0]

ReqEcho == Req(<<"e","c","h","o">>, <<>>, <<>>, <<>>, <<>>)

\* the payloads the broker delivers (SpellRequest, magicrune.rs lines 22-41)
ReqTab == <<
    \* 1: not JSON at all
    [ReqEcho EXCEPT !.json = FALSE, !.shape = FALSE],
    \* 2: JSON of the wrong shape (for instance "cmd": 5)
    [ReqEcho EXCEPT !.shape = FALSE],
    \* 3: echo
    ReqEcho,
    \* 4: Curl x, no allow_net (network intent, upper case included)
    Req(<<"C","u","r","l"," ","x">>, <<>>, <<>>, <<>>, <<>>),
    \* 5: a valid file followed by a relative path
    Req(<<"e","c","h","o">>, <<>>,
        <<File(PathTmpA, "ok"), File(PathRel, "ok")>>, <<>>, <<>>),
    \* 6: ssh h with a file under /tmp and a stdin larger than the pipe
    Req(<<"s","s","h"," ","h">>, BigStdin,
        <<File(PathTmpA, "")>>, <<>>, <<FsTmpAll>>),
    \* 7: blank command, a file outside /tmp granted by the request
    Req(<<" "," ">>, <<>>, <<File(PathEtcP, "bad")>>, <<>>, <<PathEtcP>>)
>>

ReqIds == 1..Len(ReqTab)

\* capabilities.fs.allow lists a policy file may hold
PolicyFsAllows == {<<>>, <<PathEtcP>>}

\* a faulty variant: only the first of the two parses is made
from_slice_json_only(payload) == payload.json

\* serde_json::from_slice::<Value> and then ::<SpellRequest> both succeed
from_slice_ok(payload) == payload.json /\ payload.shape

\* ---------------------------------------------------------------- paths
RECURSIVE SplitSlash(_, _)
\* the components of a path: split on '/', empty and "." components dropped
SplitSlash(s, cur) ==
    LET keep == IF cur = <<>> \/ cur = <<".">> THEN <<>> ELSE <<cur>>
    IN  IF Len(s) = 0 THEN keep
        ELSE IF s[1] = "/" THEN keep \o SplitSlash(Tail(s), <<>>)
        ELSE SplitSlash(Tail(s), Append(cur, s[1]))

\* Path::is_absolute (unix)
is_absolute(p) == Len(p) > 0 /\ p[1] = "/"

\* Path::new(p).starts_with("/tmp/"): component-wise prefix [RootDir, "tmp"]
starts_with_tmp(p) ==
    /\ is_absolute(p)
    /\ LET c == SplitSlash(p, <<>>) IN Len(c) >= 1 /\ c[1] = Tmp

\* the path sanity test of the materialization loop
path_invalid(p) == ~is_absolute(p) \/ contains(p, <<".",".">>)

\* the allow test of the materialization loop (literal patterns only)
fs_allowed(p, allow) ==
    \/ starts_with_tmp(p)
    \/ \E i \in 1..Len(allow) :
          \/ (allow[i] = FsTmpAll /\ starts_with_tmp(p))
          \/ allow[i] = p

\* what one admitted file entry does to the file system
WriteOps(f) ==
    IF f.content_b64 = "bad"
    THEN <<[op |-> "mkdir", path |-> f.path]>>
    ELSE <<[op |-> "mkdir", path |-> f.path], [op |-> "write", path |-> f.path]>>

RECURSIVE materialize(_, _, _)
\* for f in &req.files { check; write }: the writes done and whether the
\* loop broke on a violation
materialize(files, allow, done) ==
    IF Len(files) = 0 THEN [written |-> done, fs_violation |-> FALSE]
    ELSE LET f == Head(files) IN
         IF path_invalid(f.path) \/ ~fs_allowed(f.path, allow)
         THEN [written |-> done, fs_violation |-> TRUE]
         ELSE materialize(Tail(files), allow, done \o WriteOps(f))

\* -------------------------------------------------------------- grading
\* a faulty variant: the curl token is forgotten
net_intent_no_curl(cmd) ==
    LET cmd_l == to_lowercase(cmd) IN
        \/ contains(cmd_l, <<"w","g","e","t"," ">>)
        \/ contains(cmd_l, <<"h","t","t","p",":","/","/">>)
        \/ contains(cmd_l, <<"h","t","t","p","s",":","/","/">>)

net_intent(cmd) ==
    LET cmd_l == to_lowercase(cmd) IN
        \/ contains(cmd_l, <<"c","u","r","l"," ">>)
        \/ contains(cmd_l, <<"w","g","e","t"," ">>)
        \/ contains(cmd_l, <<"h","t","t","p",":","/","/">>)
        \/ contains(cmd_l, <<"h","t","t","p","s",":","/","/">>)

ssh_intent(cmd) == contains(to_lowercase(cmd), <<"s","s","h"," ">>)

Max(a, b) == IF a >= b THEN a ELSE b
Min(a, b) == IF a <= b THEN a ELSE b


SpellResult(run_id, verdict, risk_score, exit_code) ==
    [run_id |-> run_id, verdict |-> verdict, risk_score |-> risk_score,
     exit_code |-> exit_code]

\* ------------------------------------------------- the CLI's policy checks
\* str::ends_with
ends_with(s, suf) ==
    Len(suf) <= Len(s) /\ SubSeq(s, Len(s) - Len(suf) + 1, Len(s)) = suf

\* fn pat_matches: "*", base/**, *infix*, *suffix, prefix*, else equality
pat_matches(s, pat) ==
    IF pat = <<"*">> THEN TRUE
    ELSE IF ends_with(pat, <<"/","*","*">>) THEN starts_with(s, SubSeq(pat, 1, Len(pat) - 3))
    ELSE IF starts_with(pat, <<"*">>) /\ ends_with(pat, <<"*">>)
    THEN contains(s, SubSeq(pat, 2, Len(pat) - 1))
    ELSE IF starts_with(pat, <<"*">>) THEN ends_with(s, Tail(pat))
    ELSE IF ends_with(pat, <<"*">>) THEN starts_with(s, SubSeq(pat, 1, Len(pat) - 1))
    ELSE s = pat

any_match(s, pats) == \E j \in 1..Len(pats) : pat_matches(s, pats[j])

\* for (k, _v) in &req.env { if env_deny.iter().any(|p| pat_matches(k, p)) .. }
env_denied(env, deny) == \E i \in 1..Len(env) : any_match(env[i], deny)

\* if !env_allow.is_empty() { for (k, _v) in &req.env { if !any .. } }
env_not_allowed(env, allow) ==
    allow # <<>> /\ \E i \in 1..Len(env) : ~any_match(env[i], allow)

\* index of the last occurrence of a character, 0 when there is none
rfind_char(s, c) ==
    IF \E i \in 1..Len(s) : s[i] = c
    THEN CHOOSE i \in 1..Len(s) : s[i] = c /\ \A j \in (i + 1)..Len(s) : s[j] # c
    ELSE 0

find_char(s, c) == find(s, <<c>>)

\* fn hostport_parts: [host, port] with port <<>> (None) or <<p>> (Some(p))
hostport_parts(s) ==
    LET st    == trim(s)
        rest  == Tail(st)
        close == IF starts_with(st, <<"[">>) THEN find_char(rest, "]") ELSE 0
        colon == rfind_char(st, ":")
        p     == DropN(st, colon)
    IN  IF close > 0
        THEN LET host  == SubSeq(rest, 1, close - 1)
                 after == DropN(rest, close)
             IN  IF starts_with(after, <<":">>)
                 THEN [host |-> host, port |-> <<Tail(after)>>]
                 ELSE [host |-> host, port |-> <<>>]
        ELSE IF colon > 0 /\ p # <<>> /\ \A i \in 1..Len(p) : IsDigit(p[i])
        THEN [host |-> SubSeq(st, 1, colon - 1), port |-> <<p>>]
        ELSE [host |-> st, port |-> <<>>]

\* first index of '/' or whitespace, Len + 1 when there is none
host_end(rest) ==
    IF \E i \in 1..Len(rest) : rest[i] = "/" \/ rest[i] \in Whitespace
    THEN CHOOSE i \in 1..Len(rest) :
            /\ rest[i] = "/" \/ rest[i] \in Whitespace
            /\ \A j \in 1..(i - 1) : ~(rest[j] = "/" \/ rest[j] \in Whitespace)
    ELSE Len(rest) + 1

RECURSIVE scan_scheme(_, _, _)
\* the while-let loop of extract_http_hosts for one scheme
scan_scheme(cmd, scheme, default_port) ==
    LET pos == find(cmd, scheme) IN
    IF pos = 0 THEN <<>>
    ELSE LET rest     == DropN(cmd, pos + Len(scheme) - 1)
             end      == host_end(rest)
             hostport == SubSeq(rest, 1, end - 1)
             hp       == hostport_parts(hostport)
             item     == IF hp.port = <<>>
                         THEN hp.host \o <<":">> \o default_port
                         ELSE hostport
         IN  (IF hostport = <<>> THEN <<>> ELSE <<item>>)
             \o scan_scheme(DropN(rest, end - 1), scheme, default_port)

\* fn extract_http_hosts: host:port of every http:// and https:// URL
extract_http_hosts(cmd) ==
    scan_scheme(cmd, <<"h","t","t","p",":","/","/">>, <<"8","0">>) \o scan_scheme(cmd, <<"h","t","t","p","s",":","/","/">>, <<"4","4","3">>)

\* str::parse::<u16>: <<>> on error, <<n>> on success
parse_u16(s) ==
    LET body == IF Len(s) > 0 /\ s[1] = "+" THEN Tail(s) ELSE s
        d    == strip_zeros(body)
    IN  IF Len(body) = 0 \/ \E i \in 1..Len(body) : ~IsDigit(body[i]) THEN <<>>
        ELSE IF Len(d) > 5 THEN <<>>
        ELSE IF DecVal(d) > 65535 THEN <<>>
        ELSE <<DecVal(d)>>

\* fn parse_port_spec: [any, range] with range <<>> or <<lo, hi>>
parse_port_spec(p) ==
    IF p = <<>> THEN [any |-> FALSE, range |-> <<>>]
    ELSE LET ps   == p[1]
             dash == find_char(ps, "-")
             a    == IF dash > 0 THEN parse_u16(SubSeq(ps, 1, dash - 1)) ELSE <<>>
             b    == IF dash > 0 THEN parse_u16(DropN(ps, dash)) ELSE <<>>
             x    == parse_u16(ps)
         IN  IF ps = <<"*">> THEN [any |-> TRUE, range |-> <<>>]
             ELSE IF a # <<>> /\ b # <<>> THEN [any |-> FALSE, range |-> <<a[1], b[1]>>]
             ELSE IF x # <<>> THEN [any |-> FALSE, range |-> <<x[1], x[1]>>]
             ELSE [any |-> FALSE, range |-> <<>>]

\* the port test shared by the wildcard and the exact branch of allowed_match
port_ok(spec, port) ==
    LET pn == IF port = <<>> THEN <<>> ELSE parse_u16(port[1]) IN
    IF spec.any THEN TRUE
    ELSE IF spec.range # <<>> /\ pn # <<>>
    THEN pn[1] >= spec.range[1] /\ pn[1] <= spec.range[2]
    ELSE spec.range = <<>>

RECURSIVE SplitOn(_, _, _)
\* str::split(c): the parts between the separators, empty parts kept
SplitOn(s, c, cur) ==
    IF Len(s) = 0 THEN <<cur>>
    ELSE IF s[1] = c THEN <<cur>> \o SplitOn(Tail(s), c, <<>>)
    ELSE SplitOn(Tail(s), c, Append(cur, s[1]))

HexDigits == <<"0","1","2","3","4","5","6","7","8","9","a","b","c","d","e","f">>
IsHex(c) == \E i \in 1..16 : HexDigits[i] = LowerChar(c)
HexDigitVal(c) == (CHOOSE i \in 1..16 : HexDigits[i] = LowerChar(c)) - 1

RECURSIVE HexVal(_)
HexVal(s) ==
    IF Len(s) = 0 THEN 0
    ELSE 16 * HexVal(SubSeq(s, 1, Len(s) - 1)) + HexDigitVal(s[Len(s)])

\* one decimal octet of an IPv4 literal: 1 to 3 digits, no leading zero, at
\* most 255; <<>> on error
parse_octet(s) ==
    IF /\ Len(s) \in 1..3
       /\ \A i \in 1..Len(s) : IsDigit(s[i])
       /\ (Len(s) = 1 \/ s[1] # "0")
       /\ DecVal(s) <= 255
    THEN <<DecVal(s)>> ELSE <<>>

\* one group of an IPv6 literal: 1 to 4 hex digits; <<>> on error
parse_group(s) ==
    IF Len(s) \in 1..4 /\ \A i \in 1..Len(s) : IsHex(s[i])
    THEN <<HexVal(s)>> ELSE <<>>

\* str::parse::<Ipv4Addr>: four octets separated by '.'
parse_ipv4(s) ==
    LET parts == SplitOn(s, ".", <<>>) IN
    IF Len(parts) = 4 /\ \A i \in 1..4 : parse_octet(parts[i]) # <<>>
    THEN <<[fam |-> 4, w |-> [i \in 1..4 |-> parse_octet(parts[i])[1]]]>>
    ELSE <<>>

\* the groups of one side of "::" (none for an empty side)
groups_of(s) == IF s = <<>> THEN <<>> ELSE SplitOn(s, ":", <<>>)

\* str::parse::<Ipv6Addr> for literals without an embedded IPv4 tail: eight
\* groups, or fewer with one "::" that stands for at least one zero group
parse_ipv6(s) ==
    LET dc   == find(s, <<":",":">>)
        head == IF dc = 0 THEN groups_of(s) ELSE groups_of(SubSeq(s, 1, dc - 1))
        tail == IF dc = 0 THEN <<>> ELSE groups_of(DropN(s, dc + 1))
        n    == Len(head) + Len(tail)
        ok   == /\ \A i \in 1..Len(head) : parse_group(head[i]) # <<>>
                /\ \A i \in 1..Len(tail) : parse_group(tail[i]) # <<>>
                /\ IF dc = 0 THEN n = 8 ELSE n <= 7
    IN  IF ok
        THEN <<[fam |-> 6,
                w   |-> [i \in 1..8 |->
                            IF i <= Len(head) THEN parse_group(head[i])[1]
                            ELSE IF i > 8 - Len(tail)
                            THEN parse_group(tail[i - (8 - Len(tail))])[1]
                            ELSE 0]]>>
        ELSE <<>>

\* str::parse::<IpAddr>: <<>> on error, <<[fam, w]>> with the address as
\* octets (IPv4) or 16-bit groups (IPv6), most significant first
parse_ip(s) == IF parse_ipv4(s) # <<>> THEN parse_ipv4(s) ELSE parse_ipv6(s)

\* str::parse::<u8>: <<>> on error, <<n>> on success
parse_u8(s) ==
    LET body == IF Len(s) > 0 /\ s[1] = "+" THEN Tail(s) ELSE s
        d    == strip_zeros(body)
    IN  IF Len(body) = 0 \/ \E i \in 1..Len(body) : ~IsDigit(body[i]) THEN <<>>
        ELSE IF Len(d) > 3 THEN <<>>
        ELSE IF DecVal(d) > 255 THEN <<>>
        ELSE <<DecVal(d)>>

\* fn parse_cidr: <<>> (None) or <<[net, pre]>>; the entry is split at its
\* first '/'
parse_cidr(allow) ==
    LET slash == find_char(allow, "/")
        ip    == IF slash = 0 THEN <<>> ELSE parse_ip(SubSeq(allow, 1, slash - 1))
        pre   == IF slash = 0 THEN <<>> ELSE parse_u8(DropN(allow, slash))
    IN  IF ip # <<>> /\ pre # <<>> THEN <<[net |-> ip[1], pre |-> pre[1]]>> ELSE <<>>

\* the width in bits of an address of family fam
addr_bits(fam) == IF fam = 4 THEN 32 ELSE 128

\* 2^k for k in 0..16
Pow2(k) == 2^k

\* x & mask for one word of width W of which the top k bits are kept
mask_word(x, k, W) == (x \div Pow2(W - k)) * Pow2(W - k)

\* the number of leading bits `(!0) << (bits - p)` keeps: p for p < bits; for
\* p > bits the subtraction and the shift amount wrap (a build without
\* overflow checks)
mask_len(p, bits) == IF p = bits THEN bits ELSE bits - ((bits - p + 256) % bits)

\* a & mask == n & mask, word by word
masked_equal(a, n, keep) ==
    LET W == IF a.fam = 4 THEN 8 ELSE 16 IN
    \A i \in 1..Len(a.w) :
        LET k == Min(W, Max(0, keep - W * (i - 1))) IN
        mask_word(a.w[i], k, W) = mask_word(n.w[i], k, W)

\* ip_in_cidr with a mask one bit short
ip_in_cidr_short_mask(ip, cidr) ==
    IF ip.fam # cidr.net.fam THEN FALSE
    ELSE IF cidr.pre = 0 THEN TRUE
    ELSE masked_equal(ip, cidr.net, mask_len(cidr.pre, addr_bits(ip.fam)) - 1)

\* fn ip_in_cidr: families differ -> false; p == 0 -> true; else the masked
\* comparison
ip_in_cidr(ip, cidr) ==
    IF ip.fam # cidr.net.fam THEN FALSE
    ELSE IF cidr.pre = 0 THEN TRUE
    ELSE masked_equal(ip, cidr.net, mask_len(cidr.pre, addr_bits(ip.fam)))

\* `32 - p as u32` (128 for IPv6) overflows: a build with overflow checks
\* panics there, one without wraps
shift_overflows(host, allow) ==
    LET c == parse_cidr(allow) ip == parse_ip(host) IN
    /\ c # <<>> /\ ip # <<>>
    /\ ip[1].fam = c[1].net.fam
    /\ c[1].pre > addr_bits(ip[1].fam)

\* fn allowed_match: a CIDR entry decides by ip_in_cidr alone; else *.suffix,
\* exact host, bracketed literal, with the entry's port spec
allowed_match(host, port, allow) ==
    LET c      == parse_cidr(allow)
        ip     == parse_ip(host)
        a      == hostport_parts(allow)
        spec   == parse_port_spec(a.port)
        a_host == a.host
    IN  IF c # <<>> THEN ip # <<>> /\ ip_in_cidr(ip[1], c[1])
        ELSE IF starts_with(a_host, <<"*",".">>) /\ ends_with(host, DropN(a_host, 2))
        THEN port_ok(spec, port)
        ELSE IF a_host = host THEN port_ok(spec, port)
        ELSE /\ starts_with(a_host, <<"[">>) /\ ends_with(a_host, <<"]">>)
             /\ Len(a_host) >= 2
             /\ SubSeq(a_host, 2, Len(a_host) - 1) = host

\* the NET allowlist check: allowed = req.allow_net ++ policy net allow
net_check(cmd, allow_net, policy_net) ==
    LET allowed == allow_net \o policy_net
        hosts   == extract_http_hosts(cmd)
    IN  IF ~net_intent(cmd) THEN "ok"
        ELSE IF allowed = <<>> THEN "NetNotAllowed"
        ELSE IF \E i \in 1..Len(hosts) :
                   LET h == hostport_parts(hosts[i]) IN
                   \A j \in 1..Len(allowed) : ~allowed_match(h.host, h.port, allowed[j])
        THEN "NetEndpointNotAllowed"
        ELSE "ok"

\* a faulty variant: a timeout equal to the limit is refused as well
timeout_exceeds_inclusive(timeout_sec, wall_sec) == timeout_sec >= wall_sec

\* if req.timeout_sec > limits.wall_sec
timeout_exceeds(timeout_sec, wall_sec) == timeout_sec > wall_sec

\* the allow test of the CLI's materialization loop: /tmp/, or a policy
\* fs.allow entry that is "/tmp/**" (for a /tmp/ path) or equals the path
cli_fs_allowed(p, policy_fs_allow) ==
    \/ starts_with_tmp(p)
    \/ \E i \in 1..Len(policy_fs_allow) :
          \/ (policy_fs_allow[i] = FsTmpAll /\ starts_with_tmp(p))
          \/ policy_fs_allow[i] = p

\* what the CLI does with one file entry: "ok" or the failure
cli_file_outcome(f, pol) ==
    IF path_invalid(f.path) THEN "PathInvalid"
    ELSE IF any_match(f.path, pol.fs_readonly) THEN "PathReadonly"
    ELSE IF ~cli_fs_allowed(f.path, pol.fs_allow) THEN "PathNotAllowed"
    ELSE "ok"

RECURSIVE cli_materialize(_, _, _, _, _)
\* for f in &req.files { checks; create_dir_all; fs::write or exit(4) }:
\* the writes done and how the loop ended; fail_at is the entry whose write
\* the file system refuses (0: none)
cli_materialize(files, pol, done, k, fail_at) ==
    IF Len(files) = 0 THEN [written |-> done, outcome |-> "ok"]
    ELSE LET f == Head(files)
             o == cli_file_outcome(f, pol)
         IN  IF o # "ok" THEN [written |-> done, outcome |-> o]
             ELSE IF k = fail_at /\ f.content_b64 # "bad"
             THEN [written |-> Append(done, [op |-> "mkdir", path |-> f.path]),
                   outcome |-> "WriteFailed"]
             ELSE cli_materialize(Tail(files), pol, done \o WriteOps(f), k + 1, fail_at)

\* std::process::exit codes of the CLI's early exits
ExitOf(failure) ==
    CASE failure \in {"EnvDenied", "EnvNotAllowed", "NetNotAllowed",
                      "NetEndpointNotAllowed", "TimeoutExceedsLimit",
                      "PathNotAllowed"} -> 3
      [] failure \in {"Parse", "PathInvalid"} -> 1
      [] failure = "PathReadonly" -> 20
      [] failure = "WriteFailed" -> 4
      [] failure = "SpawnPanic" -> 101

\* the outcome of the CLI's checks in the order the code makes them: env
\* deny, env allow, network, timeout, then the file loop; "ok" or the failure
policy_failure(req, pol) ==
    IF env_denied(req.env, pol.env_deny) THEN "EnvDenied"
    ELSE IF env_not_allowed(req.env, pol.env_allow) THEN "EnvNotAllowed"
    ELSE IF net_check(req.cmd, req.allow_net, pol.net_allow) # "ok"
    THEN net_check(req.cmd, req.allow_net, pol.net_allow)
    ELSE IF timeout_exceeds(req.timeout_sec, pol.wall_sec) THEN "TimeoutExceedsLimit"
    ELSE cli_materialize(req.files, pol, <<>>, 1, 0).outcome

\* ------------------------------------------------- policies and CLI requests
HostH80 == <<"h",":","8","0">>
PatEtcStar == <<"/","e","t","c","/","*">>
PatEtcTree == <<"/","e","t","c","/","*","*">>
PatS == <<"S","*">>
PatA == <<"A","*">>

EnvPolicies ==
    {[allow |-> <<>>, deny |-> <<>>],
     [allow |-> <<>>, deny |-> <<PatS>>],
     [allow |-> <<PatA>>, deny |-> <<>>]}

FsPolicies ==
    {[readonly |-> <<>>, allow |-> <<>>],
     [readonly |-> <<PatEtcTree>>, allow |-> <<PathEtcP>>],
     [readonly |-> <<>>, allow |-> <<PathEtcP>>],
     [readonly |-> <<>>, allow |-> <<PatEtcStar>>]}

\* what the loaders read from a policy file (load_env_policy_from_policy,
\* load_net_allow_from_policy, load_limits_from_policy,
\* load_fs_readonly_from_policy, load_fs_allow_from_policy)
Policies ==
    {[env_allow |-> e.allow, env_deny |-> e.deny, net_allow |-> n, wall_sec |-> w,
      fs_readonly |-> f.readonly, fs_allow |-> f.allow] :
        e \in EnvPolicies, n \in {<<>>, <<HostH80>>}, w \in 0..MaxWall, f \in FsPolicies}

\* the worker takes its policy values where it uses them
NoPolicy == <<>>

CmdYes == <<"y","e","s">>

\* the requests given to `magicrune exec`: the worker's payloads and more
CliReqTab == ReqTab \o <<
    \* 8: an environment variable SK
    [ReqEcho EXCEPT !.env = <<<<"S","K">>>>],
    \* 9: an environment variable AB
    [ReqEcho EXCEPT !.env = <<<<"A","B">>>>],
    \* 10: a URL on host h, no allow_net of its own
    Req(<<"c","u","r","l"," ","h","t","t","p",":","/","/","h","/">>, <<>>, <<>>, <<>>, <<>>),
    \* 11: a URL on host g while the request allows h:80 only
    Req(<<"c","u","r","l"," ","h","t","t","p",":","/","/","g","/">>, <<>>, <<>>, <<HostH80>>, <<>>),
    \* 12: timeout_sec one above the largest limit
    [ReqEcho EXCEPT !.timeout_sec = MaxWall + 1],
    \* 13: timeout_sec equal to the largest limit
    [ReqEcho EXCEPT !.timeout_sec = MaxWall],
    \* 14: denied variable, timeout above the limit and a relative path at once
    [Req(<<"e","c","h","o">>, <<>>, <<File(PathRel, "ok")>>, <<>>, <<>>)
        EXCEPT !.env = <<<<"S","K">>>>, !.timeout_sec = MaxWall + 1],
    \* 15: a file outside /tmp that the request does not grant
    Req(<<"e","c","h","o">>, <<>>, <<File(PathEtcP, "ok")>>, <<>>, <<>>),
    \* 16: a file outside /tmp that the request grants by a pattern
    Req(<<"e","c","h","o">>, <<>>, <<File(PathEtcP, "ok")>>, <<>>, <<PatEtcStar>>),
    \* 17: echo with "seed": 0
    [ReqEcho EXCEPT !.seed = <<0>>],
    \* 18: echo with "seed": 5
    [ReqEcho EXCEPT !.seed = <<5>>],
    \* 19: a command that writes more than a pipe holds to its stdout and then
    \* exits (yes | head -n 100000, chaos_large_output_truncation)
    Req(CmdYes, <<>>, <<>>, <<>>, <<>>)
>>

\* the bytes a worker or the publisher appends to the payload: the payload's
\* "seed" as u64, little endian; 8 zero bytes when the field is absent. <<n>>
\* stands for the 8 bytes of n, <<>> for no bytes at all
seed_le(req) == IF req.seed = NoSeed THEN <<0>> ELSE <<req.seed[1]>>

\* run_id = "r_" + sha256(payload ++ seed_le): the hashed bytes stand for the
\* digest (SHA-256 taken as injective); r is a row of CliReqTab, of which
\* ReqTab is the head
RunId(r) == [payload |-> r, seed_le |-> seed_le(CliReqTab[r])]

\* the values of --seed: not given, 0, 5
CliSeeds == {NoSeed, <<0>>, <<5>>}

CliReqIds == 1..Len(CliReqTab)

\* ------------------------------------------------------------ the state
VARIABLES
    impl,           \* which worker binary runs: "magicrune" (consume) or "js_consumer"
    dedupe_max,     \* MAGICRUNE_DEDUPE_MAX
    skip_ack_once,  \* MAGICRUNE_TEST_SKIP_ACK_ONCE = 1
    dry_run,        \* MAGICRUNE_DRY_RUN = 1
    seen,           \* HashSet of message ids
    order,          \* VecDeque of message ids, eldest first
    count_total, count_dupe, count_red,
    skipped_once,   \* run_ids whose ack was omitted once
    processed,      \* history: the ids of the deliveries that were not suppressed
    ids_used,       \* history: how many distinct ids the broker has handed out
    pc,             \* where the loop (or the CLI run) stands
    msg,            \* the delivery being handled: [id, req, redelivery]
    loc,            \* the locals of the iteration
    child,          \* "none", "running", "exited", "reaped", "killed"
    beh,            \* what the spawned command does: [code, reads]
    elapsed,        \* poll intervals slept since the deadline was set
    ev,             \* the events of the current delivery, in order
    written,        \* the file system operations of the current delivery
    res,            \* the SpellResult built for the current delivery
    unacked,        \* broker: deliveries whose ack is outstanding, with the
                    \* result published for them so far: [id, req, res]
    policy,         \* magicrune exec: what the loaders read from the policy file
    ackack,         \* the requester's confirmation on run.ack.<run_id> for the
                    \* current delivery: "not_sent", "lost", "queued"
    wk,             \* which of the two workers of the durable consumer is shown
    other,          \* the process state of the worker that is not shown
    opt_seed,       \* magicrune exec: the --seed option, <<>> when not given
    ledger,         \* an InMemoryLedger and the threads that share it
    requester,      \* js_publish: where the requester of the current run stands
    call            \* one call of a library function: [fn, args, done, panicked, ret]

cfgvars  == <<impl, dedupe_max, skip_ack_once, dry_run, policy, opt_seed, call, ledger, requester>>
ringvars == <<seen, order, processed, ids_used>>
cntvars  == <<count_total, count_dupe, count_red>>
chvars   == <<child, beh, elapsed>>
pairvars == <<wk, other>>
vars == <<cfgvars, pairvars, ringvars, cntvars, skipped_once, pc, msg, loc, chvars,
          ev, written, res, unacked, ackack>>

NoMsg == [id |-> 0, req |-> 0, redelivery |-> FALSE]
\* no library call is under observation
NoCall == [fn |-> "none", args |-> <<>>, done |-> FALSE, panicked |-> FALSE, ret |-> <<>>]
NoRunId == [payload |-> 0, seed_le |-> <<>>]
\* no ledger is under observation
NoLedger == [inner |-> <<>>, holder |-> 0, th |-> <<>>, last |-> <<>>]
\* no requester is under observation
NoRequester == [pc |-> "none", req |-> 0, missed |-> FALSE]
NoRes == [run_id |-> NoRunId, verdict |-> "none", risk_score |-> 0, exit_code |-> 0]
\* code: <<>> when the command never exits by itself, <<c>> when it exits with c;
\* out: how much it writes to its stdout before it exits
NoBeh == [code |-> <<>>, reads |-> FALSE, out |-> 0]
InitLoc ==
    [run_id |-> NoRunId, risk_score |-> 0, exit_code |-> 0, wall_sec |-> 0,
     path |-> "none", timed_out |-> FALSE, pub_ok |-> FALSE, ackwait |-> "none",
     verdict |-> "none", failure |-> "none", status |-> <<>>,
     quarantined |-> FALSE]

ChildCodes == {0, 7}
\* a command exits with a code or never does; it drains its stdin or does not
Behaviours(r) ==
    {[code |-> c, reads |-> rd, out |-> IF CliReqTab[r].cmd = CmdYes THEN PipeCap + 1 ELSE 0] :
        c \in {<<>>} \cup {<<x>> : x \in ChildCodes},
        rd \in IF Len(CliReqTab[r].stdin) > PipeCap THEN BOOLEAN ELSE {TRUE}}

\* stdout(Stdio::piped()), read by wait_with_output only, after try_wait has
\* seen the exit: a child gets rid of what the pipe holds and no more
output_written(b) == b.out <= PipeCap

TypeOK ==
    /\ impl \in {"magicrune", "js_consumer", "sandbox", "cli", "lib"}
    /\ dedupe_max \in 0..MaxDedupe
    /\ skip_ack_once \in BOOLEAN /\ dry_run \in BOOLEAN
    /\ seen \subseteq 1..MaxIds
    /\ count_total \in 0..MaxMsgs /\ count_dupe \in 0..MaxMsgs /\ count_red \in 0..MaxMsgs
    /\ child \in {"none", "running", "exited", "reaped", "killed"}
    /\ elapsed \in 0..MaxWall

\* ------------------------------------------------------ the DedupeRing
\* if seen.contains(&id)
dedupe_hit(s, id) == id \in s

\* a faulty variant: the eldest id is evicted one insertion too early
dedupe_insert_early_evict(s, o, id, max) ==
    IF id \in s THEN [seen |-> s, order |-> o]
    ELSE LET o1 == Append(o, id) IN
         IF Len(o1) >= max
         THEN [seen |-> (s \cup {id}) \ {Head(o1)}, order |-> Tail(o1)]
         ELSE [seen |-> s \cup {id}, order |-> o1]

\* a faulty variant: on overflow the newest id is dropped (pop_back)
dedupe_insert_evict_newest(s, o, id, max) ==
    IF id \in s THEN [seen |-> s, order |-> o]
    ELSE LET o1 == Append(o, id) IN
         IF Len(o1) > max
         THEN [seen |-> s, order |-> o]
         ELSE [seen |-> s \cup {id}, order |-> o1]

\* if seen.insert(id) { order.push_back(id); if order.len() > dedupe_max
\*     { if let Some(old) = order.pop_front() { seen.remove(&old); } } }
dedupe_insert(s, o, id, max) ==
    IF id \in s THEN [seen |-> s, order |-> o]
    ELSE LET o1 == Append(o, id) IN
         IF Len(o1) > max
         THEN [seen |-> (s \cup {id}) \ {Head(o1)}, order |-> Tail(o1)]
         ELSE [seen |-> s \cup {id}, order |-> o1]

\* ------------------------------------------------------------ the broker
\* the broker forgets a delivery once it is acked
acked(u, id) == {m \in u : m.id # id}

\* a delivery that was not acked stays with the broker, which redelivers it
\* (same id, same payload) after ack_wait
not_acked(u, id, r, result) ==
    acked(u, id) \cup {[id |-> id, req |-> r, res |-> result]}

\* the payloads a delivery of this id can carry: the one the broker holds for
\* an outstanding delivery, any payload for a new message
payloads_of(u, id) ==
    IF \E m \in u : m.id = id THEN {m.req : m \in {x \in u : x.id = id}} ELSE ReqIds

\* the state of a worker process that has handled nothing yet
FreshWorker ==
    [seen |-> {}, order |-> <<>>, processed |-> <<>>, count_total |-> 0,
     count_dupe |-> 0, count_red |-> 0, skipped_once |-> {}]

\* ---------------------------------------------------- the worker loop
InitWorker ==
    /\ dedupe_max \in 0..MaxDedupe
    /\ dry_run \in BOOLEAN
    /\ seen = {} /\ order = <<>> /\ processed = <<>> /\ ids_used = 0
    /\ count_total = 0 /\ count_dupe = 0 /\ count_red = 0
    /\ skipped_once = {}
    /\ pc = "fetch" /\ msg = NoMsg /\ loc = InitLoc
    /\ child = "none" /\ beh = NoBeh /\ elapsed = 0
    /\ ev = <<>> /\ written = <<>> /\ res = NoRes
    /\ unacked = {} /\ ackack = "not_sent" /\ wk = 1 /\ other = FreshWorker
    /\ policy = NoPolicy /\ opt_seed = NoSeed /\ ledger = NoLedger /\ call = NoCall

\* either worker binary, without the test directive
Init ==
    /\ impl \in {"magicrune", "js_consumer"}
    /\ skip_ack_once = FALSE
    /\ InitWorker /\ requester = NoRequester

\* magicrune consume started with MAGICRUNE_TEST_SKIP_ACK_ONCE=1
InitSkip ==
    /\ impl = "magicrune"
    /\ skip_ack_once = TRUE
    /\ InitWorker /\ requester = NoRequester

\* the deliveries explored in a session
MsgCap == IF skip_ack_once THEN MaxSkipMsgs ELSE MaxMsgs

\* while let Some(Ok(msg)) = messages.next().await: count, derive the id,
\* ack and skip a duplicate, else remember the id
Consume_Fetch(id) ==
    /\ pc = "fetch" /\ count_total + other.count_total < MsgCap
    /\ id \in 1..Min(ids_used + 1, MaxIds)
    /\ count_total' = count_total + 1
    /\ ids_used' = Max(ids_used, id)
    /\ msg' = [id |-> id, req |-> 0, redelivery |-> \E m \in unacked : m.id = id]
    /\ loc' = InitLoc /\ written' = <<>> /\ res' = NoRes
    /\ child' = "none" /\ beh' = NoBeh /\ elapsed' = 0
    /\ ackack' = "not_sent"
    /\ IF dedupe_hit(seen, id)
       THEN /\ count_dupe' = count_dupe + 1
            /\ ev' = <<"ack">>
            /\ unacked' = acked(unacked, id)
            /\ pc' = "fetch"
            /\ UNCHANGED <<seen, order, processed>>
       ELSE /\ LET ring == dedupe_insert(seen, order, id, dedupe_max) IN
                seen' = ring.seen /\ order' = ring.order
            /\ processed' = Append(processed, id)
            /\ ev' = <<>>
            /\ pc' = "parse"
            /\ UNCHANGED <<count_dupe, unacked>>
    /\ UNCHANGED <<cfgvars, pairvars, count_red, skipped_once>>

\* the stream ends (None) or yields an error item: the while-let loop is left
\* and the worker returns Ok(())
Consume_StreamStop(kind) ==
    /\ pc = "fetch"
    /\ pc' = kind
    /\ UNCHANGED <<cfgvars, pairvars, ackack, unacked, ringvars, cntvars, skipped_once, msg, loc, chvars, ev,
                   written, res>>

\* serde_json::from_slice twice (Value, then SpellRequest): ack and continue
\* on failure; else derive the run_id
Consume_Parse(r) ==
    /\ pc = "parse"
    /\ r \in payloads_of(unacked, msg.id)
    /\ msg' = [msg EXCEPT !.req = r]
    /\ IF ~from_slice_ok(ReqTab[r])
       THEN /\ ev' = Append(ev, "ack")
            /\ pc' = "fetch"
            /\ UNCHANGED loc
       ELSE /\ loc' = [loc EXCEPT !.run_id = RunId(r)]
            /\ pc' = "grade"
            /\ UNCHANGED ev
    /\ UNCHANGED <<cfgvars, pairvars, ackack, unacked, ringvars, cntvars, skipped_once, chvars, written, res>>

\* minimal grading: network intent without request allow_net is rejected red
Consume_Grade ==
    /\ pc = "grade"
    /\ LET req == ReqTab[msg.req] IN
       IF net_intent(req.cmd) /\ req.allow_net = <<>>
       THEN /\ res' = SpellResult(loc.run_id, "red", 80, 20)
            /\ loc' = [loc EXCEPT !.path = "net_reject"]
            /\ pc' = "publish"
       ELSE /\ loc' = [loc EXCEPT !.risk_score = IF ssh_intent(req.cmd) THEN 30 ELSE 0]
            /\ pc' = "files"
            /\ UNCHANGED res
    /\ UNCHANGED <<cfgvars, pairvars, ackack, unacked, ringvars, cntvars, skipped_once, msg, chvars, ev, written>>

\* the allow list the materialization loop consults: the request's allow_fs
\* in magicrune consume, the policy's capabilities.fs.allow in js_consumer
FilesAllow(pa) == IF impl = "magicrune" THEN ReqTab[msg.req].allow_fs ELSE pa

\* for f in &req.files { ... }; if fs_violation { red result }
Consume_Files(pa) ==
    /\ pc = "files"
    /\ LET m == materialize(ReqTab[msg.req].files, FilesAllow(pa), <<>>) IN
       /\ written' = m.written
       /\ ev' = ev \o [i \in 1..Len(m.written) |-> "write"]
       /\ IF m.fs_violation
          THEN /\ res' = SpellResult(loc.run_id, "red", Max(loc.risk_score, 80), 20)
               /\ loc' = [loc EXCEPT !.path = "fs_reject"]
               /\ pc' = "publish"
          ELSE /\ pc' = "spawn"
               /\ UNCHANGED <<res, loc>>
    /\ UNCHANGED <<cfgvars, pairvars, ackack, unacked, ringvars, cntvars, skipped_once, msg, chvars>>

\* Command::new("bash")...spawn()?  (skipped under MAGICRUNE_DRY_RUN or for a
\* blank command); a spawn error leaves the loop through the ? operator
Consume_Spawn(ok) ==
    /\ pc = "spawn"
    /\ IF dry_run \/ trim(ReqTab[msg.req].cmd) = <<>>
       THEN /\ pc' = "publish"
            /\ UNCHANGED <<child, beh, ev>>
       ELSE IF ok
       THEN /\ child' = "running" /\ beh' \in Behaviours(msg.req)
            /\ ev' = Append(ev, "spawn")
            /\ pc' = "stdin"
       ELSE /\ pc' = "err_spawn"
            /\ UNCHANGED <<child, beh, ev>>
    /\ unacked' = IF pc' = "err_spawn"
                  THEN not_acked(unacked, msg.id, msg.req, NoRes)
                  ELSE unacked
    /\ UNCHANGED <<cfgvars, pairvars, ackack, ringvars, cntvars, skipped_once, msg, loc,
                   elapsed, written, res>>

\* sin.write_all(stdin) returns once the pipe took every byte: at once when
\* they fit, else when the child drains the pipe or has gone (EPIPE, ignored)
stdin_write_returns(stdin, b, ch) ==
    \/ Len(stdin) <= PipeCap
    \/ b.reads
    \/ ch = "exited"

\* the stdin hand-over, then deadline = now + limits.wall_sec
Consume_WriteStdin(w) ==
    /\ pc = "stdin"
    /\ stdin_write_returns(ReqTab[msg.req].stdin, beh, child)
    /\ loc' = [loc EXCEPT !.wall_sec = w]
    /\ elapsed' = 0
    /\ pc' = "poll"
    /\ UNCHANGED <<cfgvars, pairvars, ackack, unacked, ringvars, cntvars, skipped_once, msg, child, beh, ev,
                   written, res>>

\* the spawned command exits by itself
ChildExit ==
    /\ pc \in {"stdin", "poll", "x_stdin", "x_poll", "c_stdin", "c_poll"}
    /\ child = "running" /\ beh.code # <<>>
    /\ output_written(beh)
    /\ child' = "exited"
    /\ UNCHANGED <<cfgvars, pairvars, ackack, unacked, ringvars, cntvars, skipped_once, pc, msg, loc, beh,
                   elapsed, ev, written, res>>

\* Instant::now() >= deadline
deadline_passed(el, wall) == el >= wall

\* one iteration of the supervision loop of the worker: try_wait, deadline
\* check, sleep
Consume_Poll ==
    /\ pc = "poll"
    /\ IF child = "exited"
       THEN /\ child' = "reaped"
            /\ loc' = [loc EXCEPT !.exit_code = beh.code[1]]
            /\ ev' = Append(ev, "exit")
            /\ pc' = "publish"
            /\ UNCHANGED elapsed
       ELSE IF deadline_passed(elapsed, loc.wall_sec)
       THEN /\ child' = "killed"
            /\ loc' = [loc EXCEPT !.exit_code = 20, !.timed_out = TRUE]
            /\ ev' = Append(ev, "kill")
            /\ pc' = "publish"
            /\ UNCHANGED elapsed
       ELSE /\ elapsed' = elapsed + 1
            /\ UNCHANGED <<child, loc, ev, pc>>
    /\ UNCHANGED <<cfgvars, pairvars, ackack, unacked, ringvars, cntvars, skipped_once, msg, beh, written, res>>

\* js.publish(run.res.<run_id>, result): the outcome is discarded (let _ =);
\* a rejected request counts as red
Consume_Publish(th, ok) ==
    /\ pc = "publish"
    /\ IF loc.path \in {"net_reject", "fs_reject"}
       THEN /\ count_red' = count_red + 1
            /\ UNCHANGED res
       ELSE /\ res' = SpellResult(loc.run_id,
                        decide_verdict_from_thresholds(loc.risk_score, th),
                        loc.risk_score, loc.exit_code)
            /\ UNCHANGED count_red
    /\ loc' = [loc EXCEPT !.pub_ok = ok]
    /\ ev' = Append(ev, IF ok THEN "publish" ELSE "publish_failed")
    /\ pc' = "ack"
    /\ UNCHANGED <<cfgvars, pairvars, ackack, unacked, ringvars, count_total, count_dupe, skipped_once, msg,
                   chvars, written>>

\* a faulty variant: the message is acked while its result is still unpublished
Consume_Ack_BeforePublish ==
    /\ pc = "publish"
    /\ \A i \in 1..Len(ev) : ev[i] # "ack"
    /\ ev' = Append(ev, "ack")
    /\ UNCHANGED <<cfgvars, pairvars, ackack, unacked, ringvars, cntvars, skipped_once, pc, msg, loc, chvars,
                   written, res>>

\* if !(skip_ack_once && skipped_once.insert(run_id)) { msg.ack() }
Consume_Ack ==
    /\ pc = "ack"
    /\ LET skip == skip_ack_once /\ loc.run_id \notin skipped_once IN
       /\ skipped_once' = IF skip_ack_once THEN skipped_once \cup {loc.run_id}
                          ELSE skipped_once
       /\ ev' = IF skip THEN ev ELSE Append(ev, "ack")
       /\ unacked' = IF skip
                     THEN not_acked(unacked, msg.id, msg.req,
                                    IF loc.pub_ok THEN res ELSE NoRes)
                     ELSE acked(unacked, msg.id)
    /\ pc' = IF loc.path \in {"net_reject", "fs_reject"} THEN "fetch" ELSE "ackwait"
    /\ UNCHANGED <<cfgvars, pairvars, ackack, ringvars, cntvars, msg, loc, chvars, written, res>>

\* let mut ack = nc.subscribe(run.ack.<run_id>).await?
Consume_Subscribe(ok) ==
    /\ pc = "ackwait"
    /\ pc' = IF ok THEN "waiting" ELSE "err_subscribe"
    /\ UNCHANGED <<cfgvars, pairvars, ackack, unacked, ringvars, cntvars, skipped_once, msg, loc,
                   chvars, ev, written, res>>

\* js_publish: after the result has arrived, nc.publish(run.ack.<run_id>, "ok");
\* core NATS keeps no message for a subject nobody is subscribed to
Requester_AckAck ==
    /\ pc \in {"ack", "ackwait", "waiting"}
    /\ loc.pub_ok /\ ackack = "not_sent"
    /\ ackack' = IF pc = "waiting" THEN "queued" ELSE "lost"
    /\ UNCHANGED <<cfgvars, pairvars, unacked, ringvars, cntvars, skipped_once, pc, msg, loc,
                   chvars, ev, written, res>>

\* a faulty variant: ack.next() is awaited without the timeout
Consume_AckWait_NoTimeout(outcome) ==
    /\ pc = "waiting"
    /\ outcome = "confirmed" /\ ackack = "queued"
    /\ loc' = [loc EXCEPT !.ackwait = outcome]
    /\ pc' = "fetch"
    /\ UNCHANGED <<cfgvars, pairvars, ackack, unacked, ringvars, cntvars, skipped_once, msg,
                   chvars, ev, written, res>>

\* let _ = timeout(ack_ack_wait, ack.next()).await: the confirmation if one
\* is queued, else the timer; the outcome is discarded
Consume_AckWait(outcome) ==
    /\ pc = "waiting"
    /\ (outcome = "confirmed") = (ackack = "queued")
    /\ loc' = [loc EXCEPT !.ackwait = outcome]
    /\ pc' = "fetch"
    /\ UNCHANGED <<cfgvars, pairvars, ackack, unacked, ringvars, cntvars, skipped_once, msg,
                   chvars, ev, written, res>>

Next ==
    \/ \E id \in 1..MaxIds : Consume_Fetch(id)
    \/ \E kind \in {"stopped", "stopped_on_error"} : Consume_StreamStop(kind)
    \/ \E r \in ReqIds : Consume_Parse(r)
    \/ Consume_Grade
    \/ \E pa \in PolicyFsAllows : Consume_Files(pa)
    \/ \E ok \in BOOLEAN : Consume_Spawn(ok)
    \/ \E w \in 0..MaxWall : Consume_WriteStdin(w)
    \/ ChildExit
    \/ Consume_Poll
    \/ \E th \in ThresholdSets, ok \in BOOLEAN : Consume_Publish(th, ok)
    \/ Consume_Ack
    \/ \E ok \in BOOLEAN : Consume_Subscribe(ok)
    \/ Requester_AckAck
    \/ \E outcome \in {"confirmed", "timeout"} : Consume_AckWait(outcome)

Spec == Init /\ [][Next]_vars

SpecSkip == InitSkip /\ [][Next]_vars

\* the worker's timer runs: a worker that waits on run.ack.<run_id> is resumed
\* by the confirmation or by the timeout
SpecWait == Init /\ [][Next]_vars /\ WF_vars(\E outcome \in {"confirmed", "timeout"} : Consume_AckWait(outcome))

\* ------------------------------------------- two workers, one durable consumer
\* each `magicrune consume` process owns its ring, counters and skipped_once
\* (locals of consume_entry); the broker hands a delivery to either of them
WorkerLocals ==
    [seen |-> seen, order |-> order, processed |-> processed,
     count_total |-> count_total, count_dupe |-> count_dupe,
     count_red |-> count_red, skipped_once |-> skipped_once]

\* a faulty variant: the two workers share one ring
SwitchWorker_SharedRing ==
    /\ pc = "fetch"
    /\ wk' = 3 - wk
    /\ other' = [WorkerLocals EXCEPT !.seen = {}, !.order = <<>>]
    /\ processed' = other.processed
    /\ count_total' = other.count_total /\ count_dupe' = other.count_dupe
    /\ count_red' = other.count_red /\ skipped_once' = other.skipped_once
    /\ msg' = NoMsg /\ loc' = InitLoc /\ ev' = <<>> /\ written' = <<>>
    /\ res' = NoRes /\ ackack' = "not_sent"
    /\ UNCHANGED <<cfgvars, seen, order, ids_used, unacked, pc, chvars>>

\* the next delivery goes to the other worker, which is between two deliveries
\* as well; its loop iteration has no message yet
SwitchWorker ==
    /\ pc = "fetch"
    /\ wk' = 3 - wk
    /\ other' = WorkerLocals
    /\ seen' = other.seen /\ order' = other.order
    /\ processed' = other.processed
    /\ count_total' = other.count_total /\ count_dupe' = other.count_dupe
    /\ count_red' = other.count_red /\ skipped_once' = other.skipped_once
    /\ msg' = NoMsg /\ loc' = InitLoc /\ ev' = <<>> /\ written' = <<>>
    /\ res' = NoRes /\ ackack' = "not_sent"
    /\ UNCHANGED <<cfgvars, ids_used, unacked, pc, chvars>>

InitPair ==
    /\ impl = "magicrune" /\ skip_ack_once = TRUE
    /\ InitWorker /\ requester = NoRequester /\ dedupe_max = MaxDedupe

NextPair == Next \/ SwitchWorker

SpecPair == InitPair /\ [][NextPair]_vars

\* ------------------------------------------- the library executor
\* sandbox::exec_native -> simple_exec_with_timeout(cmd, stdin, spec): one
\* call; the request row supplies cmd and stdin, spec.wall_sec is drawn
ExecReqs == {r \in ReqIds : from_slice_ok(ReqTab[r])}

InitExec ==
    /\ impl = "sandbox"
    /\ dedupe_max = 0 /\ skip_ack_once = FALSE /\ dry_run = FALSE
    /\ seen = {} /\ order = <<>> /\ processed = <<>> /\ ids_used = 0
    /\ count_total = 0 /\ count_dupe = 0 /\ count_red = 0
    /\ skipped_once = {}
    /\ pc = "x_spawn"
    /\ \E r \in ExecReqs : msg = [NoMsg EXCEPT !.req = r]
    /\ \E w \in 0..MaxWall : loc = [InitLoc EXCEPT !.wall_sec = w]
    /\ child = "none" /\ beh = NoBeh /\ elapsed = 0
    /\ ev = <<>> /\ written = <<>> /\ res = NoRes
    /\ unacked = {} /\ ackack = "not_sent" /\ wk = 1 /\ other = FreshWorker
    /\ policy = NoPolicy /\ opt_seed = NoSeed /\ ledger = NoLedger /\ requester = NoRequester /\ call = NoCall

\* command.spawn(): Err(_) => return SandboxOutcome::empty()
Exec_Spawn(ok) ==
    /\ pc = "x_spawn"
    /\ IF ok
       THEN /\ child' = "running" /\ beh' \in Behaviours(msg.req)
            /\ ev' = Append(ev, "spawn")
            /\ pc' = "x_stdin"
            /\ UNCHANGED loc
       ELSE /\ loc' = [loc EXCEPT !.exit_code = 0]
            /\ pc' = "x_done"
            /\ UNCHANGED <<child, beh, ev>>
    /\ UNCHANGED <<cfgvars, pairvars, ackack, unacked, ringvars, cntvars, skipped_once, msg, elapsed, written, res>>

\* if !stdin.is_empty() { sin.write_all(stdin) }; start = now; deadline = start + wall_sec
Exec_WriteStdin ==
    /\ pc = "x_stdin"
    /\ stdin_write_returns(ReqTab[msg.req].stdin, beh, child)
    /\ elapsed' = 0
    /\ pc' = "x_poll"
    /\ UNCHANGED <<cfgvars, pairvars, ackack, unacked, ringvars, cntvars, skipped_once, msg, loc, child, beh, ev,
                   written, res>>

\* one iteration of the loop of simple_exec_with_timeout
Exec_Poll ==
    /\ pc = "x_poll"
    /\ IF child = "exited"
       THEN /\ child' = "reaped"
            /\ loc' = [loc EXCEPT !.exit_code = beh.code[1]]
            /\ ev' = Append(ev, "exit")
            /\ pc' = "x_done"
            /\ UNCHANGED elapsed
       ELSE IF deadline_passed(elapsed, loc.wall_sec)
       THEN /\ child' = "killed"
            /\ loc' = [loc EXCEPT !.exit_code = 20, !.timed_out = TRUE]
            /\ ev' = Append(ev, "kill")
            /\ pc' = "x_done"
            /\ UNCHANGED elapsed
       ELSE /\ elapsed' = elapsed + 1
            /\ UNCHANGED <<child, loc, ev, pc>>
    /\ UNCHANGED <<cfgvars, pairvars, ackack, unacked, ringvars, cntvars, skipped_once, msg, beh, written, res>>

NextExec ==
    \/ \E ok \in BOOLEAN : Exec_Spawn(ok)
    \/ Exec_WriteStdin
    \/ ChildExit
    \/ Exec_Poll

\* the supervising thread runs whenever its next step is not blocked
SpecExec ==
    /\ InitExec /\ [][NextExec]_vars
    /\ WF_vars(\E ok \in BOOLEAN : Exec_Spawn(ok))
    /\ WF_vars(Exec_WriteStdin)
    /\ WF_vars(Exec_Poll)

\* ------------------------------------------- magicrune exec (the CLI)
\* one run of `magicrune exec -f request.json` without --strict and without
\* --out; loc.status is the process exit status once the process has ended
LocalVars == <<pairvars, ackack, unacked, ringvars, cntvars, skipped_once>>

InitCli ==
    /\ impl = "cli"
    /\ dedupe_max = 0 /\ skip_ack_once = FALSE /\ dry_run \in BOOLEAN
    /\ policy \in Policies /\ opt_seed \in CliSeeds /\ ledger = NoLedger /\ requester = NoRequester /\ call = NoCall
    /\ seen = {} /\ order = <<>> /\ processed = <<>> /\ ids_used = 0
    /\ count_total = 0 /\ count_dupe = 0 /\ count_red = 0
    /\ skipped_once = {}
    /\ unacked = {} /\ ackack = "not_sent" /\ wk = 1 /\ other = FreshWorker
    /\ pc = "c_parse"
    /\ \E r \in CliReqIds : msg = [NoMsg EXCEPT !.req = r]
    /\ loc = InitLoc
    /\ child = "none" /\ beh = NoBeh /\ elapsed = 0
    /\ ev = <<>> /\ written = <<>> /\ res = NoRes

CliReq == CliReqTab[msg.req]

\* a faulty variant: the wall-clock limit of the policy enters the hash
cli_run_id_with_limit(raw, seed) ==
    [payload |-> raw, seed_le |-> seed \o <<policy.wall_sec>>]

\* let mut seed_buf = Vec::new(); if let Some(s) = _seed { 8 bytes of s };
\* run_id = "r_" + sha256(raw ++ seed_buf)
cli_run_id(raw, seed) == [payload |-> raw, seed_le |-> seed]

\* eprintln!(..); std::process::exit(code)
Cli_exit(failure) ==
    /\ loc' = [loc EXCEPT !.failure = failure, !.status = <<ExitOf(failure)>>]
    /\ pc' = "exited"

\* serde_json::from_slice (Value, then SpellRequest), then the run_id
Cli_Parse ==
    /\ pc = "c_parse"
    /\ IF ~from_slice_ok(CliReq)
       THEN Cli_exit("Parse")
       ELSE /\ loc' = [loc EXCEPT !.run_id = cli_run_id(msg.req, opt_seed)]
            /\ pc' = "c_env_deny"
    /\ UNCHANGED <<cfgvars, LocalVars, msg, chvars, ev, written, res>>

Cli_EnvDeny ==
    /\ pc = "c_env_deny"
    /\ IF env_denied(CliReq.env, policy.env_deny)
       THEN Cli_exit("EnvDenied")
       ELSE pc' = "c_env_allow" /\ UNCHANGED loc
    /\ UNCHANGED <<cfgvars, LocalVars, msg, chvars, ev, written, res>>

Cli_EnvAllow ==
    /\ pc = "c_env_allow"
    /\ IF env_not_allowed(CliReq.env, policy.env_allow)
       THEN Cli_exit("EnvNotAllowed")
       ELSE pc' = "c_net" /\ UNCHANGED loc
    /\ UNCHANGED <<cfgvars, LocalVars, msg, chvars, ev, written, res>>

Cli_Net ==
    /\ pc = "c_net"
    /\ LET o == net_check(CliReq.cmd, CliReq.allow_net, policy.net_allow) IN
       IF o # "ok" THEN Cli_exit(o)
       ELSE pc' = "c_timeout" /\ UNCHANGED loc
    /\ UNCHANGED <<cfgvars, LocalVars, msg, chvars, ev, written, res>>

Cli_Timeout ==
    /\ pc = "c_timeout"
    /\ IF timeout_exceeds(CliReq.timeout_sec, policy.wall_sec)
       THEN Cli_exit("TimeoutExceedsLimit")
       ELSE pc' = "c_grade" /\ UNCHANGED loc
    /\ UNCHANGED <<cfgvars, LocalVars, msg, chvars, ev, written, res>>

\* the static score, the verdict under the policy's thresholds and the exit
\* code that stands for the verdict
Cli_Grade(th) ==
    /\ pc = "c_grade"
    /\ LET net   == IF net_intent(CliReq.cmd) /\ CliReq.allow_net = <<>>
                       /\ policy.net_allow = <<>> THEN 40 ELSE 0
           score == net + (IF ssh_intent(CliReq.cmd) THEN 30 ELSE 0)
           v     == decide_verdict_from_thresholds(score, th)
       IN  loc' = [loc EXCEPT !.risk_score = score, !.verdict = v,
                     !.exit_code = IF v = "green" THEN 0
                                   ELSE IF v = "yellow" THEN 10 ELSE 20]
    /\ pc' = "c_files"
    /\ UNCHANGED <<cfgvars, LocalVars, msg, chvars, ev, written, res>>

\* the materialization loop with its three exits
Cli_Files ==
    /\ pc = "c_files"
    /\ \E fail_at \in 0..Len(CliReq.files) :
          LET m == cli_materialize(CliReq.files, policy, <<>>, 1, fail_at) IN
          /\ written' = m.written
          /\ ev' = ev \o [i \in 1..Len(m.written) |-> "write"]
          /\ IF m.outcome # "ok" THEN Cli_exit(m.outcome)
             ELSE pc' = "c_spawn" /\ UNCHANGED loc
    /\ UNCHANGED <<cfgvars, LocalVars, msg, chvars, res>>

\* detect_sandbox(), then Command::new("bash")...spawn().expect("spawn bash")
Cli_Spawn(sb, ok) ==
    /\ pc = "c_spawn"
    /\ IF dry_run \/ trim(CliReq.cmd) = <<>> \/ sb = "Wasi"
       THEN /\ pc' = "c_emit"
            /\ UNCHANGED <<child, beh, ev, loc>>
       ELSE IF ok
       THEN /\ child' = "running" /\ beh' \in Behaviours(msg.req)
            /\ ev' = Append(ev, "spawn")
            /\ pc' = "c_stdin"
            /\ UNCHANGED loc
       ELSE /\ Cli_exit("SpawnPanic")
            /\ UNCHANGED <<child, beh, ev>>
    /\ UNCHANGED <<cfgvars, LocalVars, msg, elapsed, written, res>>

\* sin.write_all(stdin), then deadline = now + limits.wall_sec
Cli_WriteStdin ==
    /\ pc = "c_stdin"
    /\ stdin_write_returns(CliReq.stdin, beh, child)
    /\ loc' = [loc EXCEPT !.wall_sec = policy.wall_sec]
    /\ elapsed' = 0
    /\ pc' = "c_poll"
    /\ UNCHANGED <<cfgvars, LocalVars, msg, child, beh, ev, written, res>>

\* one iteration of the CLI's supervision loop
Cli_Poll ==
    /\ pc = "c_poll"
    /\ IF child = "exited"
       THEN /\ child' = "reaped"
            /\ loc' = [loc EXCEPT !.exit_code = beh.code[1]]
            /\ ev' = Append(ev, "exit")
            /\ pc' = "c_emit"
            /\ UNCHANGED elapsed
       ELSE IF deadline_passed(elapsed, loc.wall_sec)
       THEN /\ child' = "killed"
            /\ loc' = [loc EXCEPT !.timed_out = TRUE]
            /\ ev' = Append(ev, "kill")
            /\ pc' = "c_emit"
            /\ UNCHANGED elapsed
       ELSE /\ elapsed' = elapsed + 1
            /\ UNCHANGED <<child, loc, ev, pc>>
    /\ UNCHANGED <<cfgvars, LocalVars, msg, beh, written, res>>

\* the result is printed; a runtime timeout forces red and exit 20; the
\* quarantine files (result.red.json, stdout.txt, stderr.txt) are written
\* if forced_timeout_red || final_exit == 20; std::process::exit(final_exit)
Cli_Emit ==
    /\ pc = "c_emit"
    /\ LET final_exit == IF loc.timed_out THEN 20 ELSE loc.exit_code IN
       /\ res' = SpellResult(loc.run_id,
                             IF loc.timed_out THEN "red" ELSE loc.verdict,
                             loc.risk_score, final_exit)
       /\ loc' = [loc EXCEPT !.status = <<final_exit>>,
                            !.quarantined = loc.timed_out \/ final_exit = 20]
    /\ ev' = Append(ev, "emit")
    /\ pc' = "exited"
    /\ UNCHANGED <<cfgvars, LocalVars, msg, chvars, written>>

NextCli ==
    \/ Cli_Parse
    \/ Cli_EnvDeny
    \/ Cli_EnvAllow
    \/ Cli_Net
    \/ Cli_Timeout
    \/ \E th \in ThresholdSets : Cli_Grade(th)
    \/ Cli_Files
    \/ \E sb \in {"Linux", "Wasi"}, ok \in BOOLEAN : Cli_Spawn(sb, ok)
    \/ Cli_WriteStdin
    \/ ChildExit
    \/ Cli_Poll
    \/ Cli_Emit

SpecCli == InitCli /\ [][NextCli]_vars

\* ------------------------------------------- library functions, one call
\* everything but `call` at rest
LibIdle ==
    /\ impl = "lib"
    /\ dedupe_max = 0 /\ skip_ack_once = FALSE /\ dry_run = FALSE
    /\ policy = NoPolicy /\ opt_seed = NoSeed /\ ledger = NoLedger /\ requester = NoRequester
    /\ seen = {} /\ order = <<>> /\ processed = <<>> /\ ids_used = 0
    /\ count_total = 0 /\ count_dupe = 0 /\ count_red = 0
    /\ skipped_once = {}
    /\ pc = "call" /\ msg = NoMsg /\ loc = InitLoc
    /\ child = "none" /\ beh = NoBeh /\ elapsed = 0
    /\ ev = <<>> /\ written = <<>> /\ res = NoRes
    /\ unacked = {} /\ ackack = "not_sent" /\ wk = 1 /\ other = FreshWorker

\* what a call leaves alone
LibVars ==
    <<impl, dedupe_max, skip_ack_once, dry_run, policy, opt_seed, ledger, requester, pairvars, ringvars, cntvars,
      skipped_once, pc, msg, loc, chvars, ev, written, res, unacked, ackack>>

\* the hosts of the URLs of a command, as hostport_parts hands them on
AmHosts ==
    {<<"e","x","a","m","p","l","e",".","c","o","m">>, <<"a","p","i",".","e","x","a","m","p","l","e",".","c","o","m">>, <<"e","v","i","l","e","x","a","m","p","l","e",".","c","o","m">>, <<"h">>,
     <<"1","0",".","0",".","0",".","1">>, <<"1","0",".","1","2","8",".","0",".","1">>, <<"1","0",".","1",".","0",".","1">>, <<"1","1",".","0",".","0",".","1">>, <<"1","2","7",".","0",".","0",".","1">>,
     <<":",":","1">>, <<"2","0","0","1",":","d","b","8",":",":","1">>, <<"2","0","0","1",":","d","b","9",":",":","1">>}

\* their ports: none, or the digits after the last ':'
AmPorts == {<<>>, <<<<"7","9">>>>, <<<<"8","0">>>>, <<<<"8","5">>>>, <<<<"9","0">>>>, <<<<"9","1">>>>, <<<<"4","4","3">>>>}

\* allow entries: wildcard, exact, with port specs, bracketed, CIDR blocks
AmAllows ==
    {<<"*",".","e","x","a","m","p","l","e",".","c","o","m">>, <<"*",".","e","x","a","m","p","l","e",".","c","o","m",":","4","4","3">>, <<"e","x","a","m","p","l","e",".","c","o","m">>, <<"e","x","a","m","p","l","e",".","c","o","m",":","8","0">>,
     <<"h">>, <<"h",":","8","0">>, <<"h",":","*">>, <<"h",":","8","0","-","9","0">>, <<"[","h","]",":","*">>, <<"[","h","]",":","8","0","-","9","0">>, <<"[",":",":","1","]">>,
     <<"1","0",".","0",".","0",".","0","/","8">>, <<"1","0",".","0",".","0",".","0","/","9">>, <<"1","0",".","0",".","0",".","0","/","1","6">>, <<"1","0",".","0",".","0",".","1","/","3","2">>, <<"0",".","0",".","0",".","0","/","0">>,
     <<"1","0",".","0",".","0",".","0","/","3","3">>, <<":",":","/","0">>, <<"2","0","0","1",":","d","b","8",":",":","/","3","2">>, <<":",":","1","/","1","2","8">>, <<"h","/","8">>}

InitAllow ==
    /\ LibIdle
    /\ \E host \in AmHosts, port \in AmPorts, allow \in AmAllows :
          call = [NoCall EXCEPT !.fn = "allowed_match",
                                !.args = [host |-> host, port |-> port, allow |-> allow]]

\* allowed_match(host, port, allow) returns, or panics where the mask shift
\* overflows in a build with overflow checks
Call_allowed_match ==
    /\ call.fn = "allowed_match" /\ ~call.done
    /\ \E panicked \in (IF shift_overflows(call.args.host, call.args.allow)
                        THEN BOOLEAN ELSE {FALSE}) :
          call' = [call EXCEPT
                     !.done = TRUE, !.panicked = panicked,
                     !.ret = IF panicked THEN <<>>
                             ELSE <<allowed_match(call.args.host, call.args.port,
                                                  call.args.allow)>>]
    /\ UNCHANGED LibVars

NextAllow == Call_allowed_match

SpecAllow == InitAllow /\ [][NextAllow]_vars

\* ------------------------------------------- verdict selection, one call
\* threshold expressions as a policy file may hold them
ThExprs ==
    {<<"<","=","2","0">>, <<">","=","6","1">>, <<"2","1",".",".","=","6","0">>, <<" ","<","="," ","2","0"," ">>, <<">","=","1","0">>, <<"1","0"," ",".",".","="," ","2","0">>,
     <<"<","2","0">>, <<"2","1",".",".","6","0">>, <<"<","=","x">>, <<"=",">","6","1">>, <<>>}

\* scores on and around the limits of the expressions
Scores == {0, 10, 20, 21, 60, 61, 100}

InitDecide ==
    /\ LibIdle
    /\ \E score \in Scores, g \in ThExprs, y \in ThExprs :
          call = [NoCall EXCEPT
                    !.fn = "decide_verdict_from_thresholds",
                    !.args = [score |-> score,
                              th |-> [green |-> g, yellow |-> y, red |-> <<">","=","6","1">>]]]

\* decide_verdict_from_thresholds(score, &thresholds) returns
Call_decide_verdict ==
    /\ call.fn = "decide_verdict_from_thresholds" /\ ~call.done
    /\ call' = [call EXCEPT
                  !.done = TRUE,
                  !.ret = <<decide_verdict_from_thresholds(call.args.score, call.args.th)>>]
    /\ UNCHANGED LibVars

NextDecide == Call_decide_verdict

SpecDecide == InitDecide /\ [][NextDecide]_vars

\* ------------------------------------------- the three derivations of run_id
\* js_publish: the payload's "seed" as u64 (0 when the payload is no JSON or
\* has no such field), 8 bytes little endian, appended to the payload
publish_run_id(r) ==
    [payload |-> r,
     seed_le |-> IF CliReqTab[r].json THEN seed_le(CliReqTab[r]) ELSE <<0>>]

\* nothing derived yet
NoIds == [cli |-> <<>>, worker |-> <<>>, publisher |-> <<>>]

\* one request file, handed to the CLI (with or without --seed), to the
\* publisher, and by the broker to a worker
InitRunId ==
    /\ LibIdle
    /\ \E r \in {x \in CliReqIds : from_slice_ok(CliReqTab[x])}, s \in CliSeeds :
          call = [NoCall EXCEPT !.fn = "run_id",
                                !.args = [payload |-> r, seed |-> s],
                                !.ret = NoIds]

\* magicrune exec -f <file> [--seed s]
Call_run_id_cli ==
    /\ call.fn = "run_id" /\ call.ret.cli = <<>>
    /\ call' = [call EXCEPT !.ret.cli = <<cli_run_id(call.args.payload, call.args.seed)>>]
    /\ UNCHANGED LibVars

\* magicrune consume on the delivery of the payload
Call_run_id_worker ==
    /\ call.fn = "run_id" /\ call.ret.worker = <<>>
    /\ call' = [call EXCEPT !.ret.worker = <<RunId(call.args.payload)>>]
    /\ UNCHANGED LibVars

\* js_publish <file>
Call_run_id_publisher ==
    /\ call.fn = "run_id" /\ call.ret.publisher = <<>>
    /\ call' = [call EXCEPT !.ret.publisher = <<publish_run_id(call.args.payload)>>]
    /\ UNCHANGED LibVars

NextRunId ==
    \/ Call_run_id_cli
    \/ Call_run_id_worker
    \/ Call_run_id_publisher

SpecRunId == InitRunId /\ [][NextRunId]_vars

\* ------------------------------------------ exec_native (linux_native)
\* one call of exec_native on a Linux build with the feature linux_native;
\* call.args[1] is the set of attempts (by position) whose unshare the kernel
\* accepts, call.ret the flag sets handed to unshare so far
\* a faulty variant: the weakest set is tried first
ns_attempts_weakest_first ==
    << {"uts", "ipc", "pid", "mount"},
       {"uts", "ipc", "pid", "mount", "net"},
       {"uts", "ipc", "pid", "mount", "net", "user"} >>

\* let attempts: &[CloneFlags] = &[ ... ]
ns_attempts ==
    << {"uts", "ipc", "pid", "mount", "net", "user"},
       {"uts", "ipc", "pid", "mount", "net"},
       {"uts", "ipc", "pid", "mount"} >>

InitNative ==
    /\ impl = "sandbox"
    /\ dedupe_max = 0 /\ skip_ack_once = FALSE /\ dry_run = FALSE
    /\ seen = {} /\ order = <<>> /\ processed = <<>> /\ ids_used = 0
    /\ count_total = 0 /\ count_dupe = 0 /\ count_red = 0
    /\ skipped_once = {}
    /\ pc = "n_unshare"
    /\ \E r \in ExecReqs : msg = [NoMsg EXCEPT !.req = r]
    /\ \E w \in 0..MaxWall : loc = [InitLoc EXCEPT !.wall_sec = w]
    /\ child = "none" /\ beh = NoBeh /\ elapsed = 0
    /\ ev = <<>> /\ written = <<>> /\ res = NoRes
    /\ unacked = {} /\ ackack = "not_sent" /\ wk = 1 /\ other = FreshWorker
    /\ policy = NoPolicy /\ opt_seed = NoSeed /\ ledger = NoLedger /\ requester = NoRequester
    /\ \E k \in SUBSET (1..Len(ns_attempts)) :
          call = [NoCall EXCEPT !.fn = "exec_native", !.args = <<k>>]

NativeVars ==
    <<impl, dedupe_max, skip_ack_once, dry_run, policy, opt_seed, ledger, requester, pairvars, ackack, unacked,
      ringvars, cntvars, skipped_once, msg, loc, chvars, ev, written, res>>

\* one turn of `for flags in attempts { if unshare(*flags).is_ok() { ok = true;
\* break; } }`, and after the loop `if !ok { return None; }`
Native_Unshare ==
    /\ pc = "n_unshare"
    /\ LET i == Len(call.ret) + 1 IN
       /\ call' = [call EXCEPT !.ret = Append(@, ns_attempts[i])]
       /\ pc' = IF i \in call.args[1] THEN "n_some"
                ELSE IF i = Len(ns_attempts) THEN "n_none"
                ELSE "n_unshare"
    /\ UNCHANGED NativeVars

\* linux_try_exec: let out = simple_exec_with_timeout(..).await; Some(out),
\* and exec_native returns it
Native_ExecIsolated ==
    /\ pc = "n_some"
    /\ pc' = "x_spawn"
    /\ UNCHANGED <<call, NativeVars>>

\* exec_native after linux_try_exec returned None:
\* simple_exec_with_timeout(cmd, stdin, spec).await
Native_ExecFallback ==
    /\ pc = "n_none"
    /\ pc' = "x_spawn"
    /\ UNCHANGED <<call, NativeVars>>

NextNative ==
    \/ Native_Unshare
    \/ Native_ExecIsolated
    \/ Native_ExecFallback
    \/ \E ok \in BOOLEAN : Exec_Spawn(ok)
    \/ Exec_WriteStdin
    \/ ChildExit
    \/ Exec_Poll

\* the calling thread runs whenever its next step is not blocked
SpecNative ==
    /\ InitNative /\ [][NextNative]_vars
    /\ WF_vars(Native_Unshare) /\ WF_vars(Native_ExecIsolated) /\ WF_vars(Native_ExecFallback)
    /\ WF_vars(\E ok \in BOOLEAN : Exec_Spawn(ok))
    /\ WF_vars(Exec_WriteStdin)
    /\ WF_vars(Exec_Poll)

\* ------------------------------------------------------ InMemoryLedger
\* one InMemoryLedger shared by the threads of LedgerThreads, each of which makes up
\* to MaxLedgerOps calls of put or get; ledger.inner is the HashMap (<<>> for
\* an absent key), ledger.holder the thread that holds the Mutex (0: free),
\* ledger.last, a history, the record of the latest put whose body ran, by
\* run_id
LedgerThreads == {1, 2}
MaxLedgerOps == 2
LedgerIds == 1..2
LedgerRecs ==
    {[run_id |-> i, verdict |-> v, risk_score |-> 0, exit_code |-> 0] :
        i \in LedgerIds, v \in {"green", "red"}}
NoRec == [run_id |-> 0, verdict |-> "none", risk_score |-> 0, exit_code |-> 0]
IdleThread == [pc |-> "idle", op |-> "none", id |-> 0, rec |-> NoRec, ret |-> <<>>, n |-> 0]

\* a faulty variant: an occupied key keeps its record (entry().or_insert())
ledger_insert_keep_first(m, rec) ==
    IF m[rec.run_id] # <<>> THEN m ELSE [m EXCEPT ![rec.run_id] = <<rec>>]

\* g.insert(rec.run_id.clone(), rec)
ledger_insert(m, rec) == [m EXCEPT ![rec.run_id] = <<rec>>]

\* g.get(run_id).cloned()
ledger_lookup(m, id) == m[id]

\* InMemoryLedger::new() and threads that have not called yet
InitLedger ==
    /\ impl = "lib"
    /\ dedupe_max = 0 /\ skip_ack_once = FALSE /\ dry_run = FALSE
    /\ policy = NoPolicy /\ opt_seed = NoSeed /\ requester = NoRequester /\ call = NoCall
    /\ seen = {} /\ order = <<>> /\ processed = <<>> /\ ids_used = 0
    /\ count_total = 0 /\ count_dupe = 0 /\ count_red = 0
    /\ skipped_once = {}
    /\ pc = "ledger" /\ msg = NoMsg /\ loc = InitLoc
    /\ child = "none" /\ beh = NoBeh /\ elapsed = 0
    /\ ev = <<>> /\ written = <<>> /\ res = NoRes
    /\ unacked = {} /\ ackack = "not_sent" /\ wk = 1 /\ other = FreshWorker
    /\ ledger = [inner |-> [i \in LedgerIds |-> <<>>], holder |-> 0,
                 th |-> [t \in LedgerThreads |-> IdleThread],
                 last |-> [i \in LedgerIds |-> <<>>]]

LedgerVars ==
    <<impl, dedupe_max, skip_ack_once, dry_run, policy, opt_seed, requester, call, pairvars,
      ringvars, cntvars, skipped_once, pc, msg, loc, chvars, ev, written, res, unacked, ackack>>

\* a thread calls ledger.put(rec)
Ledger_CallPut(t, rec) ==
    /\ ledger.th[t].pc = "idle" /\ ledger.th[t].n < MaxLedgerOps
    /\ ledger' = [ledger EXCEPT !.th[t] =
            [@ EXCEPT !.pc = "lock", !.op = "put", !.id = rec.run_id, !.rec = rec, !.ret = <<>>]]
    /\ UNCHANGED LedgerVars

\* a thread calls ledger.get(run_id)
Ledger_CallGet(t, id) ==
    /\ ledger.th[t].pc = "idle" /\ ledger.th[t].n < MaxLedgerOps
    /\ ledger' = [ledger EXCEPT !.th[t] =
            [@ EXCEPT !.pc = "lock", !.op = "get", !.id = id, !.rec = NoRec, !.ret = <<>>]]
    /\ UNCHANGED LedgerVars

\* self.inner.lock().unwrap()
Ledger_Lock(t) ==
    /\ ledger.th[t].pc = "lock" /\ ledger.holder = 0
    /\ ledger' = [ledger EXCEPT !.holder = t, !.th[t].pc = "body"]
    /\ UNCHANGED LedgerVars

\* the body of put or of get, under the guard
Ledger_Body(t) ==
    /\ ledger.th[t].pc = "body"
    /\ LET c == ledger.th[t] IN
       IF c.op = "put"
       THEN ledger' = [ledger EXCEPT !.inner = ledger_insert(@, c.rec),
                                     !.th[t].pc = "unlock",
                                     !.last[c.id] = <<c.rec>>]
       ELSE ledger' = [ledger EXCEPT !.th[t].pc = "unlock",
                                     !.th[t].ret = <<ledger_lookup(ledger.inner, c.id)>>]
    /\ UNCHANGED LedgerVars

\* the guard is dropped and the call returns
Ledger_Return(t) ==
    /\ ledger.th[t].pc = "unlock"
    /\ ledger' = [ledger EXCEPT !.holder = 0, !.th[t].pc = "idle", !.th[t].n = @ + 1]
    /\ UNCHANGED LedgerVars

NextLedger ==
    \/ \E t \in LedgerThreads, rec \in LedgerRecs : Ledger_CallPut(t, rec)
    \/ \E t \in LedgerThreads, id \in LedgerIds : Ledger_CallGet(t, id)
    \/ \E t \in LedgerThreads : Ledger_Lock(t)
    \/ \E t \in LedgerThreads : Ledger_Body(t)
    \/ \E t \in LedgerThreads : Ledger_Return(t)

SpecLedger == InitLedger /\ [][NextLedger]_vars

\* ------------------------------------------- the library grader, one call
\* the thresholds of test_grade_with_custom_policy
CustomThresholds ==
    [green  |-> <<"<","=","1","0">>,
     yellow |-> <<"1","1",".",".","=","5","0">>,
     red    |-> <<">","=","5","1">>]

\* PolicyDoc: grading is <<>> for None, <<[thresholds |-> t]>> for Some
PolicyDocs ==
    {[version |-> v, grading |-> g] :
        v \in {1, 2},
        g \in {<<>>} \cup {<<[thresholds |-> t]>> : t \in {DefaultThresholds, StrictThresholds, CustomThresholds}}}

\* the fields of SpellRequest that grade reads: Option<Vec<String>>, <<>> for
\* None and <<list>> for Some(list)
GradeReqs ==
    {[allow_net |-> n, allow_fs |-> f] :
        n \in {<<>>, << <<>> >>, << <<<<"l","o","c","a","l","h","o","s","t">>>> >>, << <<HostH80, <<"g">>>> >>},
        f \in {<<>>, << <<>> >>, << <<FsTmpAll>> >>, << <<FsTmpAll, PathEtcP>> >>,
               << <<PathEtcP>> >>, << <<PathEtcP, PathTmpA>> >>}}

\* a faulty variant: every entry other than "/tmp/**" adds 20 (no break)
fs_risk_no_break(fs) ==
    20 * Cardinality({i \in 1..Len(fs) : fs[i] # FsTmpAll})

\* for p in fs { if p != "/tmp/**" { risk += 20; break; } }
fs_risk(fs) ==
    IF \E i \in 1..Len(fs) : fs[i] # FsTmpAll THEN 20 ELSE 0

\* pub fn grade: the thresholds of the policy are read into _thresholds, which
\* nothing uses; risk.max(0) as u32
grade(req, pol) ==
    LET risk == (IF req.allow_net # <<>> /\ req.allow_net[1] # <<>> THEN 40 ELSE 0)
                + (IF req.allow_fs # <<>> THEN fs_risk(req.allow_fs[1]) ELSE 0)
        thresholds == IF pol.grading # <<>> THEN pol.grading[1].thresholds
                      ELSE DefaultThresholds
        verdict == IF risk <= 20 THEN "green"
                   ELSE IF risk <= 60 THEN "yellow"
                   ELSE "red"
    IN  [risk_score |-> Max(risk, 0), verdict |-> verdict]

InitGrade ==
    /\ LibIdle
    /\ \E req \in GradeReqs, pol \in PolicyDocs :
          call = [NoCall EXCEPT !.fn = "grade", !.args = [req |-> req, policy |-> pol]]

\* grade(&req, &policy) returns
Call_grade ==
    /\ call.fn = "grade" /\ ~call.done
    /\ call' = [call EXCEPT !.done = TRUE, !.ret = <<grade(call.args.req, call.args.policy)>>]
    /\ UNCHANGED LibVars

NextGrade == Call_grade

SpecGrade == InitGrade /\ [][NextGrade]_vars

\* ------------------------------------------- js_publish and one worker
\* one run of js_publish with the payload requester.req, and the worker that
\* is handed the request; requester.missed records that a result went out on
\* run.res.<run_id> while nobody was subscribed to it
PubReqs == {r \in ReqIds : from_slice_ok(ReqTab[r])}

InitPub ==
    /\ impl \in {"magicrune", "js_consumer"}
    /\ skip_ack_once = FALSE
    /\ InitWorker
    /\ \E r \in PubReqs : requester = [pc |-> "start", req |-> r, missed |-> FALSE]

PubVars ==
    <<impl, dedupe_max, skip_ack_once, dry_run, policy, opt_seed, ledger, call, pairvars,
      unacked, ringvars, cntvars, skipped_once, pc, msg, loc, chvars, ev, written, res>>

\* a result for the requester's run_id has gone out on run.res.<run_id>
ResultPublished ==
    /\ \E i \in 1..Len(ev) : ev[i] = "publish"
    /\ res.run_id = publish_run_id(requester.req)

\* js.publish_with_headers(subject, headers, payload): the request is in the
\* stream
Requester_Publish ==
    /\ requester.pc = "start"
    /\ requester' = [requester EXCEPT !.pc = "published"]
    /\ UNCHANGED <<PubVars, ackack>>

\* nc.subscribe("run.res.<run_id>"): a core subscription, which sees what is
\* published from now on
Requester_Subscribe ==
    /\ requester.pc = "published"
    /\ requester' = [requester EXCEPT !.pc = "subscribed", !.missed = ResultPublished]
    /\ UNCHANGED <<PubVars, ackack>>

\* timeout(to_secs, sub.next()) yields the result: print it and publish "ok"
\* on run.ack.<run_id>, which reaches a worker that is subscribed by then
Requester_Receive ==
    /\ requester.pc = "subscribed" /\ ~requester.missed /\ ResultPublished
    /\ requester' = [requester EXCEPT !.pc = "received"]
    /\ ackack' = IF ackack # "not_sent" THEN ackack
                 ELSE IF pc = "waiting" THEN "queued" ELSE "lost"
    /\ UNCHANGED PubVars

\* timeout(to_secs, sub.next()) elapses: "timeout waiting for run.res.<run_id>"
Requester_Timeout ==
    /\ requester.pc = "subscribed" /\ (requester.missed \/ ~ResultPublished)
    /\ requester' = [requester EXCEPT !.pc = "timeout"]
    /\ UNCHANGED <<PubVars, ackack>>

\* the broker hands the request to the worker once it is in the stream
Pub_Fetch == requester.pc # "start" /\ count_total = 0 /\ Consume_Fetch(1)

\* the delivery carries the payload that was published
Pub_Parse == Consume_Parse(requester.req)

NextPub ==
    \/ Requester_Publish
    \/ Requester_Subscribe
    \/ Requester_Receive
    \/ Requester_Timeout
    \/ Pub_Fetch
    \/ Pub_Parse
    \/ Consume_Grade
    \/ \E pa \in PolicyFsAllows : Consume_Files(pa)
    \/ \E ok \in BOOLEAN : Consume_Spawn(ok)
    \/ \E w \in 0..MaxWall : Consume_WriteStdin(w)
    \/ ChildExit
    \/ Consume_Poll
    \/ \E th \in ThresholdSets, ok \in BOOLEAN : Consume_Publish(th, ok)
    \/ Consume_Ack
    \/ \E ok \in BOOLEAN : Consume_Subscribe(ok)
    \/ \E outcome \in {"confirmed", "timeout"} : Consume_AckWait(outcome)

SpecPub == InitPub /\ [][NextPub]_vars

\* =============================================================== properties
Has(e) == \E i \in 1..Len(ev) : ev[i] = e
PublishIssued == Has("publish") \/ Has("publish_failed")
\* the loop stands between two deliveries (or has ended there)
BetweenDeliveries == pc \in {"fetch", "stopped", "stopped_on_error"}
\* the current delivery carries a well-formed request
Handled == msg.req # 0 /\ ReqTab[msg.req].json /\ ReqTab[msg.req].shape

\* id was inserted into the ring and fewer than dedupe_max other distinct ids
\* were inserted after its latest insertion
InRingWindow(id) ==
    \E k \in 1..Len(processed) :
        /\ processed[k] = id
        /\ \A j \in (k + 1)..Len(processed) : processed[j] # id
        /\ Cardinality({processed[j] : j \in (k + 1)..Len(processed)}) < dedupe_max

\* C1: a delivery whose id is still within the ring window publishes nothing,
\* spawns no child, writes nothing, raises count_dupe by exactly one, is acked,
\* and the loop moves on to the next delivery
C1_DuplicateSuppressed ==
    [][\A id \in 1..MaxIds :
          (pc = "fetch" /\ count_total' = count_total + 1 /\ msg'.id = id
              /\ InRingWindow(id))
          => /\ ev' = <<"ack">>
             /\ count_dupe' = count_dupe + 1
             /\ child' = "none" /\ res' = NoRes /\ written' = <<>>
             /\ pc' = "fetch"
             /\ UNCHANGED <<seen, order, processed, count_red>>]_vars

\* C1 witness: id 1 was handled, another id was inserted, and id 1 came again
\* and was suppressed
C1_Witness ==
    /\ pc = "fetch" /\ count_total = 3 /\ count_dupe = 1
    /\ processed = <<1, 2>> /\ msg = [id |-> 1, req |-> 0, redelivery |-> FALSE]
    /\ ev = <<"ack">>

Rank(e) ==
    CASE e = "write" -> 1
      [] e = "spawn" -> 2
      [] e \in {"exit", "kill"} -> 3
      [] e \in {"publish", "publish_failed"} -> 4
      [] e = "ack" -> 5

\* C2: within one delivery every file operation precedes the spawn, the spawn
\* precedes the child's exit or kill, that precedes the publication, and the
\* publication precedes the ack; a spawned child has exited or was killed
\* before the publication, and a handled request is acked only after the
\* publication was issued
C2_EventOrder ==
    /\ \A i, j \in 1..Len(ev) :
          i < j => /\ Rank(ev[i]) <= Rank(ev[j])
                   /\ Rank(ev[i]) = Rank(ev[j]) => ev[i] = "write"
    /\ (Has("spawn") /\ PublishIssued) => (Has("exit") \/ Has("kill"))
    /\ (Handled /\ Has("ack")) => PublishIssued

\* C2 witness: a delivery that wrote files, spawned, saw the exit, published
\* and acked
C2_Witness ==
    /\ pc = "ackwait"
    /\ ev = <<"write", "write", "spawn", "exit", "publish", "ack">>

\* C3: when the files check has failed, none of the request's files has been
\* created or written
C3_NothingWrittenOnViolation == loc.path = "fs_reject" => written = <<>>

NetTokens ==
    {<<"c","u","r","l"," ">>, <<"w","g","e","t"," ">>,
     <<"h","t","t","p",":","/","/">>, <<"h","t","t","p","s",":","/","/">>}
\* the requests that name a network token and bring no allow_net entry
NetCaseReqs ==
    {r \in ReqIds :
        /\ ReqTab[r].json /\ ReqTab[r].shape
        /\ \E t \in NetTokens : contains(to_lowercase(ReqTab[r].cmd), t)
        /\ ReqTab[r].allow_net = <<>>}
\* the current delivery carries such a request
NetCase == msg.req \in NetCaseReqs

NetRejected ==
    /\ child = "none" /\ ~Has("spawn") /\ written = <<>>
    /\ pc \in {"grade", "publish", "ack"} \/ BetweenDeliveries
    /\ pc \notin {"grade", "publish"}
          => /\ res.verdict = "red" /\ res.risk_score >= 61
             /\ res.run_id = loc.run_id
             /\ PublishIssued

C5_ResultInvariants ==
    Has("publish")
       => /\ res.verdict \in {"green", "yellow", "red"}
          /\ res.risk_score <= 100
          /\ res.verdict = "red" => res.exit_code \in {3, 20}

\* C6: a result published after the deadline passed has exit_code 20 and
\* verdict red
C6_TimeoutIsRed ==
    (loc.timed_out /\ Has("publish"))
       => res.exit_code = 20 /\ res.verdict = "red"

\* C7: a child that never exits by itself is eventually killed and the
\* executor returns exit_code 20
C7_WallEnforced ==
    (child = "running" /\ beh.code = <<>>)
       ~> (pc = "x_done" /\ child = "killed" /\ loc.exit_code = 20)

\* C8: a message whose publication failed is not acked
C8_NoAckAfterFailedPublish == Has("publish_failed") => ~Has("ack")

\* C9: a spawn failure never ends the worker loop
C9_SpawnFailureSurvived == pc # "err_spawn"

\* C10: a delivery whose payload is no SpellRequest is acked and nothing else:
\* no result, no child, no file, and the loop stands at the next delivery
C10_MalformedDropped ==
    (msg.req # 0 /\ ~(ReqTab[msg.req].json /\ ReqTab[msg.req].shape))
       => /\ ev = <<"ack">>
          /\ res = NoRes /\ child = "none" /\ written = <<>>
          /\ BetweenDeliveries

\* C10 witness: a JSON payload of the wrong shape was dropped with an ack
\* while further deliveries are still to come
C10_Witness ==
    /\ pc = "fetch" /\ msg.req = 2 /\ ev = <<"ack">>
    /\ count_total < MaxMsgs

\* the current delivery was suppressed as a duplicate
TreatedAsDuplicate == msg.id # 0 /\ msg.req = 0 /\ BetweenDeliveries

\* C11: a delivery that the broker repeats because its ack was omitted is not
\* suppressed as a duplicate
C11_RedeliveryProcessed == msg.redelivery => ~TreatedAsDuplicate

\* C12: a result published for a redelivered message equals the result that
\* was published for it before, and a redelivered message that was handled to
\* the end is acked
C12_NoDivergentResults ==
    /\ \A m \in unacked :
          (m.id = msg.id /\ m.res # NoRes /\ Has("publish")
              /\ res.run_id = m.res.run_id)
          => res = m.res
    /\ (msg.redelivery /\ pc = "ackwait") => Has("ack")

\* the ring is well formed: at most dedupe_max ids, the set and the queue hold
\* the same ids, no id twice in the queue
RingWellFormed(s, o, max) ==
    /\ Len(o) <= max
    /\ s = {o[i] : i \in 1..Len(o)}
    /\ \A i, j \in 1..Len(o) : o[i] = o[j] => i = j

\* C13: every step leaves the ring well formed; a delivery that is not a
\* duplicate appends its id and, on overflow, drops exactly the eldest; every
\* other step, a duplicate hit included, leaves the ring as it is
C13_RingInvariant ==
    [][/\ RingWellFormed(seen', order', dedupe_max)
       /\ IF count_total' # count_total /\ count_dupe' = count_dupe
          THEN LET o1 == Append(order, msg'.id) IN
               /\ msg'.id \notin seen
               /\ order' = IF Len(o1) > dedupe_max THEN Tail(o1) ELSE o1
          ELSE UNCHANGED <<seen, order>>]_vars

\* C13 witness: a ring of two ids overflowed and dropped the eldest
C13_Witness ==
    /\ dedupe_max = 2 /\ processed = <<1, 2, 3>>
    /\ order = <<2, 3>> /\ seen = {2, 3}

\* C14: a delivery whose id the receiving worker has not inserted into its own
\* ring within the window is handled in full, whatever the other worker's ring
\* holds: it is not counted as a duplicate, and once it passes the publish step
\* a result for it has been issued
C14_RingPerWorker ==
    [][/\ (pc = "fetch" /\ wk' = wk /\ count_total' = count_total + 1
              /\ ~InRingWindow(msg'.id))
          => (pc' = "parse" /\ count_dupe' = count_dupe)
       /\ (pc = "publish" /\ pc' # "publish") => PublishIssued']_vars

\* C14 witness: worker 2 has published a result for a message that worker 1
\* handled and published with its ack omitted, for the same run_id
C14_Witness ==
    /\ wk = 2 /\ Has("publish") /\ msg.redelivery
    /\ \E i \in 1..Len(other.processed) : other.processed[i] = msg.id
    /\ \E m \in unacked :
          m.id = msg.id /\ m.res # NoRes /\ m.res.run_id = res.run_id

CliRejects ==
    {rp \in ReqIds \X Policies : policy_failure(ReqTab[rp[1]], rp[2]) # "ok"}

\* the worker has decided whether it rejects the current request
WorkerDecided == Handled /\ pc \in {"spawn", "stdin", "poll", "publish", "ack"}

\* C16: under every policy, magicrune consume rejects a request exactly when
\* magicrune exec rejects it
C16_WorkerMatchesCli ==
    \A p \in Policies :
        (impl = "magicrune" /\ WorkerDecided)
        => ((loc.path \in {"net_reject", "fs_reject"}) <=> (<<msg.req, p>> \in CliRejects))

PolicyFailures ==
    {"EnvDenied", "EnvNotAllowed", "NetNotAllowed", "NetEndpointNotAllowed",
     "TimeoutExceedsLimit", "PathInvalid", "PathReadonly", "PathNotAllowed"}

\* C17: a run of the CLI that ends on a policy failure ends on the first check
\* that fails in the order env-deny, env-allow, network, timeout, files, with
\* exit status 3 and without a child having been spawned
C17_FirstFailureExits3 ==
    (pc = "exited" /\ loc.failure \in PolicyFailures)
    => /\ loc.failure = policy_failure(CliReq, policy)
       /\ loc.status = <<3>>
       /\ ~Has("spawn") /\ child = "none"

\* the CLI is past its timeout check
PastTimeoutCheck ==
    pc \in {"c_grade", "c_files", "c_spawn", "c_stdin", "c_poll", "c_emit"}

\* C18: at the timeout check a timeout_sec equal to wall_sec goes on to the
\* grading; with a timeout_sec above wall_sec the run never gets past the
\* check, spawns no child and ends with the policy-violation status 3
C18_TimeoutBoundary ==
    [][/\ (pc = "c_timeout" /\ CliReq.timeout_sec = policy.wall_sec)
          => (pc' = "c_grade" /\ loc' = loc)
       /\ (from_slice_ok(CliReq) /\ CliReq.timeout_sec > policy.wall_sec)
          => /\ ~PastTimeoutCheck' /\ child' = "none"
             /\ pc' = "exited" => loc'.status = <<3>>
             /\ pc = "c_timeout" => loc'.failure = "TimeoutExceedsLimit"]_vars

\* C18 witness: a request whose timeout_sec equals a positive wall_sec passed
\* the check and its command was spawned
C18_Witness ==
    /\ CliReq.timeout_sec = policy.wall_sec /\ policy.wall_sec > 0
    /\ Has("spawn") /\ pc = "exited"

\* C19: a request with timeout_sec = 0 passes the timeout check, and its child
\* is not left running for any poll interval
C19_ZeroTimeoutKillsAtOnce ==
    (impl = "cli" /\ from_slice_ok(CliReq) /\ CliReq.timeout_sec = 0)
    => /\ loc.failure # "TimeoutExceedsLimit"
       /\ child = "running" => elapsed = 0

\* the acceptance rule for one file entry
file_acceptable(f, req, pol) ==
    /\ ~any_match(f.path, pol.fs_readonly)
    /\ \/ starts_with_tmp(f.path)
       \/ any_match(f.path, req.allow_fs)
       \/ any_match(f.path, pol.fs_allow)

\* C20: when every path of the request is valid, the CLI's file loop admits
\* all entries exactly when each of them has no matching readonly pattern and
\* is under /tmp/ or matched by a request allow_fs or policy fs.allow pattern
C20_FileAcceptance ==
    (/\ \/ pc = "c_spawn"
        \/ pc = "exited" /\ loc.failure \in {"PathReadonly", "PathNotAllowed"}
     /\ \A i \in 1..Len(CliReq.files) : ~path_invalid(CliReq.files[i].path))
    => ((pc = "c_spawn")
        <=> \A i \in 1..Len(CliReq.files) :
               file_acceptable(CliReq.files[i], CliReq, policy))

\* the call of allowed_match under observation has returned
AmReturned == call.fn = "allowed_match" /\ call.done /\ ~call.panicked

\* the host part of the allow entry of the call
AmEntryHost == hostport_parts(call.args.allow).host

\* the entry of the call is a wildcard *.SUF
AmWildcard == parse_cidr(call.args.allow) = <<>> /\ starts_with(AmEntryHost, <<"*",".">>)

\* C21: for a wildcard entry *.SUF, a host that ends with SUF without a dot
\* immediately before it is not matched: allowed_match returns false
C21_WildcardNeedsDot ==
    (/\ AmReturned /\ AmWildcard
     /\ ends_with(call.args.host, DropN(AmEntryHost, 2))
     /\ ~ends_with(call.args.host, DropN(AmEntryHost, 1)))
    => call.ret = <<FALSE>>

\* allow entries host:PORTSPEC read by hand: the host they name and the ports
\* they grant (any, or lo..hi)
PortEntries == {
    [allow |-> <<"h">>,              host |-> <<"h">>,           any |-> TRUE,  lo |-> 0,  hi |-> 0],
    [allow |-> <<"h",":","*">>,            host |-> <<"h">>,           any |-> TRUE,  lo |-> 0,  hi |-> 0],
    [allow |-> <<"h",":","8","0">>,           host |-> <<"h">>,           any |-> FALSE, lo |-> 80, hi |-> 80],
    [allow |-> <<"h",":","8","0","-","9","0">>,        host |-> <<"h">>,           any |-> FALSE, lo |-> 80, hi |-> 90],
    [allow |-> <<"e","x","a","m","p","l","e",".","c","o","m">>,    host |-> <<"e","x","a","m","p","l","e",".","c","o","m">>, any |-> TRUE,  lo |-> 0,  hi |-> 0],
    [allow |-> <<"e","x","a","m","p","l","e",".","c","o","m",":","8","0">>, host |-> <<"e","x","a","m","p","l","e",".","c","o","m">>, any |-> FALSE, lo |-> 80, hi |-> 80]}

\* the input port lies in lo..hi (a missing port lies in no range)
PortWithin(port, lo, hi) ==
    /\ port # <<>> /\ parse_u16(port[1]) # <<>>
    /\ parse_u16(port[1])[1] >= lo /\ parse_u16(port[1])[1] <= hi

\* C22: for an entry host:PORTSPEC and an input with that host, allowed_match
\* accepts any port under *, only port N under N, exactly the numeric ports
\* of lo..hi under lo-hi, and any port when the entry has no port spec
C22_PortSpec ==
    \A e \in PortEntries :
        (AmReturned /\ call.args.allow = e.allow /\ call.args.host = e.host)
        => (call.ret = <<TRUE>> <=> (e.any \/ PortWithin(call.args.port, e.lo, e.hi)))

\* input hosts read by hand: family (0: no IP literal) and the address as
\* octets (IPv4) or 16-bit groups (IPv6)
HostAddrs == {
    [host |-> <<"h">>,           fam |-> 0, w |-> <<>>],
    [host |-> <<"e","x","a","m","p","l","e",".","c","o","m">>, fam |-> 0, w |-> <<>>],
    [host |-> <<"1","0",".","0",".","0",".","1">>,    fam |-> 4, w |-> <<10, 0, 0, 1>>],
    [host |-> <<"1","0",".","1","2","8",".","0",".","1">>,  fam |-> 4, w |-> <<10, 128, 0, 1>>],
    [host |-> <<"1","0",".","1",".","0",".","1">>,    fam |-> 4, w |-> <<10, 1, 0, 1>>],
    [host |-> <<"1","1",".","0",".","0",".","1">>,    fam |-> 4, w |-> <<11, 0, 0, 1>>],
    [host |-> <<"1","2","7",".","0",".","0",".","1">>,   fam |-> 4, w |-> <<127, 0, 0, 1>>],
    [host |-> <<":",":","1">>,         fam |-> 6, w |-> <<0, 0, 0, 0, 0, 0, 0, 1>>],
    [host |-> <<"2","0","0","1",":","d","b","8",":",":","1">>, fam |-> 6, w |-> <<8193, 3512, 0, 0, 0, 0, 0, 1>>],
    [host |-> <<"2","0","0","1",":","d","b","9",":",":","1">>, fam |-> 6, w |-> <<8193, 3513, 0, 0, 0, 0, 0, 1>>]}

\* CIDR allow entries read by hand: family, network address, prefix length
CidrEntries == {
    [allow |-> <<"1","0",".","0",".","0",".","0","/","8">>,    fam |-> 4, w |-> <<10, 0, 0, 0>>, pre |-> 8],
    [allow |-> <<"1","0",".","0",".","0",".","0","/","9">>,    fam |-> 4, w |-> <<10, 0, 0, 0>>, pre |-> 9],
    [allow |-> <<"1","0",".","0",".","0",".","0","/","1","6">>,   fam |-> 4, w |-> <<10, 0, 0, 0>>, pre |-> 16],
    [allow |-> <<"1","0",".","0",".","0",".","1","/","3","2">>,   fam |-> 4, w |-> <<10, 0, 0, 1>>, pre |-> 32],
    [allow |-> <<"0",".","0",".","0",".","0","/","0">>,     fam |-> 4, w |-> <<0, 0, 0, 0>>,  pre |-> 0],
    [allow |-> <<":",":","/","0">>,          fam |-> 6, w |-> <<0, 0, 0, 0, 0, 0, 0, 0>>, pre |-> 0],
    [allow |-> <<"2","0","0","1",":","d","b","8",":",":","/","3","2">>, fam |-> 6, w |-> <<8193, 3512, 0, 0, 0, 0, 0, 0>>, pre |-> 32],
    [allow |-> <<":",":","1","/","1","2","8">>,       fam |-> 6, w |-> <<0, 0, 0, 0, 0, 0, 0, 1>>, pre |-> 128]}

\* bit i (1 = most significant) of an address given as words of width W
AddrBit(w, W, i) == (w[((i - 1) \div W) + 1] \div 2^(W - 1 - ((i - 1) % W))) % 2

\* the top pre bits of two addresses of one family are equal
SamePrefix(fam, a, n, pre) ==
    LET W == IF fam = 4 THEN 8 ELSE 16 IN
    \A i \in 1..pre : AddrBit(a, W, i) = AddrBit(n, W, i)

risk_by_rules(req, pol) ==
    Min(100,
        (IF net_intent(req.cmd) /\ req.allow_net = <<>> /\ pol.net_allow = <<>>
         THEN 40 ELSE 0)
        + (IF ssh_intent(req.cmd) THEN 30 ELSE 0)
        + (IF \E i \in 1..Len(req.allow_fs) : req.allow_fs[i] # FsTmpAll
           THEN 20 ELSE 0))

\* the CLI has graded the request
CliGraded == impl = "cli" /\ loc.verdict # "none"

\* C24: the risk score the CLI computes for a request under a policy is
\* min(100, 40 for network intent without any allow entry + 30 for "ssh " +
\* 20 for an allow_fs entry other than "/tmp/**")
C24_RiskScore == CliGraded => loc.risk_score = risk_by_rules(CliReq, policy)

\* the threshold expressions read by hand: <=N, >=N, A..=B, or malformed
ExprTab == {
    [text |-> <<"<","=","2","0">>,      kind |-> "le",    a |-> 20, b |-> 0],
    [text |-> <<" ","<","="," ","2","0"," ">>,   kind |-> "le",    a |-> 20, b |-> 0],
    [text |-> <<">","=","6","1">>,      kind |-> "ge",    a |-> 61, b |-> 0],
    [text |-> <<">","=","1","0">>,      kind |-> "ge",    a |-> 10, b |-> 0],
    [text |-> <<"2","1",".",".","=","6","0">>,   kind |-> "range", a |-> 21, b |-> 60],
    [text |-> <<"1","0"," ",".",".","="," ","2","0">>, kind |-> "range", a |-> 10, b |-> 20],
    [text |-> <<"<","2","0">>,       kind |-> "bad",   a |-> 0,  b |-> 0],
    [text |-> <<"2","1",".",".","6","0">>,    kind |-> "bad",   a |-> 0,  b |-> 0],
    [text |-> <<"<","=","x">>,       kind |-> "bad",   a |-> 0,  b |-> 0],
    [text |-> <<"=",">","6","1">>,      kind |-> "bad",   a |-> 0,  b |-> 0],
    [text |-> <<>>,          kind |-> "bad",   a |-> 0,  b |-> 0]}

\* whether an expression, as read by hand, holds of a score
ExprHolds(text, n) ==
    LET e == CHOOSE x \in ExprTab : x.text = text IN
    \/ e.kind = "le" /\ n <= e.a
    \/ e.kind = "ge" /\ n >= e.a
    \/ e.kind = "range" /\ n >= e.a /\ n <= e.b

\* the call of decide_verdict_from_thresholds under observation has returned
DecideReturned == call.fn = "decide_verdict_from_thresholds" /\ call.done

\* C25: the verdict is green if the green expression matches the score, else
\* yellow if the yellow expression matches, else red; an expression matches
\* only as <=N, >=N or A..=B (inclusive), a malformed one matches no score,
\* and the call always returns
C25_VerdictOrder ==
    DecideReturned
    => /\ ~call.panicked
       /\ call.ret =
            <<IF ExprHolds(call.args.th.green, call.args.score) THEN "green"
              ELSE IF ExprHolds(call.args.th.yellow, call.args.score) THEN "yellow"
              ELSE "red">>

\* a score inside the yellow range graded yellow past a malformed green
\* expression
C25_Witness ==
    /\ DecideReturned /\ call.ret = <<"yellow">>
    /\ call.args.th.green = <<"2","1",".",".","6","0">> /\ call.args.th.yellow = <<"2","1",".",".","=","6","0">>
    /\ call.args.score = 60

\* the CLI has derived the run_id of its request
CliHasRunId == impl = "cli" /\ (loc.run_id # NoRunId \/ res # NoRes)

\* C26: the run_id of a run of the CLI is fixed by the request bytes and the
\* seed alone: under every policy, with or without dry run, and whatever the
\* command does, it is the hash of the payload and the seed, and the result
\* emitted carries it
C26_RunIdDeterministic ==
    CliHasRunId
    => /\ loc.run_id = [payload |-> msg.req, seed_le |-> opt_seed]
       /\ res # NoRes => res.run_id = loc.run_id

\* a result emitted after a timeout, for a run with a seed
C26_Witness ==
    /\ impl = "cli" /\ pc = "exited" /\ res # NoRes
    /\ opt_seed = <<5>> /\ loc.timed_out
    /\ res.run_id = [payload |-> msg.req, seed_le |-> <<5>>]

\* the three programs have derived their run_id for the request
RunIdsDerived ==
    /\ call.fn = "run_id"
    /\ call.ret.cli # <<>> /\ call.ret.worker # <<>> /\ call.ret.publisher # <<>>

\* C27: for a payload without seed field, the run_id of the CLI without
\* --seed, of the worker and of the publisher are equal, and equal to the
\* run_id of the CLI with --seed 0: an absent seed is hashed as 8 zero bytes
C27_AbsentSeedIsZero ==
    (/\ RunIdsDerived
     /\ call.args.seed = NoSeed
     /\ CliReqTab[call.args.payload].seed = NoSeed)
    => /\ call.ret.cli = call.ret.worker
       /\ call.ret.worker = call.ret.publisher
       /\ call.ret.cli = <<cli_run_id(call.args.payload, <<0>>)>>

\* the CLI has emitted a SpellResult and left
CliEmitted == impl = "cli" /\ pc = "exited" /\ res # NoRes

\* C28: when the CLI has emitted a SpellResult, its exit status is 0 exactly
\* for verdict green, 10 exactly for yellow and 20 exactly for red, also
\* after a child has run and returned a status of its own
C28_ExitFollowsVerdict ==
    CliEmitted
    => /\ loc.status = <<0>> <=> res.verdict = "green"
       /\ loc.status = <<10>> <=> res.verdict = "yellow"
       /\ loc.status = <<20>> <=> res.verdict = "red"

\* C29: the CLI writes the quarantine files exactly when the verdict of the
\* result it emits is red
C29_QuarantineIffRed == CliEmitted => (loc.quarantined <=> res.verdict = "red")

\* the run of the CLI exists: the request is parsed and the run_id derived
CliCreated == impl = "cli" /\ loc.run_id # NoRunId

\* the run has a child, or had one
CliRunning == impl = "cli" /\ child # "none"

\* every check of the policy has passed and every file of the request is
\* written
CliCheckedAndMaterialized ==
    /\ policy_failure(CliReq, policy) = "ok"
    /\ written = cli_materialize(CliReq.files, policy, <<>>, 1, 0).written

\* C30: a run of the CLI reaches running only after the policy checks and the
\* file materialization, and every run that has ended, rejected or executed,
\* has produced a SpellResult
C30_StateMachine ==
    /\ CliRunning => CliCheckedAndMaterialized
    /\ (CliCreated /\ pc = "exited") => res # NoRes

\* the namespace sets in the order of their strength
NsByStrength ==
    << {"user", "pid", "net", "mount", "uts", "ipc"},
       {"pid", "net", "mount", "uts", "ipc"},
       {"pid", "mount", "uts", "ipc"} >>

\* the sets exec_native has to try under a kernel that accepts the attempts of
\* acc: all up to the first accepted one, or all of them
NsToTry(acc) ==
    IF acc = {} THEN NsByStrength
    ELSE SubSeq(NsByStrength, 1, CHOOSE i \in acc : \A j \in acc : i <= j)

NativeCalled == call.fn = "exec_native"
NativeTrying == NativeCalled /\ pc = "n_unshare"
SpawnCount == Cardinality({i \in DOMAIN ev : ev[i] = "spawn"})

\* C31: exec_native hands the namespace sets to unshare from the strongest to
\* the weakest and stops at the first one the kernel accepts; the command is
\* then run once, and it is also run once, unisolated, when the kernel rejects
\* all three
C31_NamespaceFallback ==
    /\ [](NativeCalled =>
            /\ \E n \in 0..Len(NsToTry(call.args[1])) :
                  call.ret = SubSeq(NsToTry(call.args[1]), 1, n)
            /\ ~NativeTrying => call.ret = NsToTry(call.args[1])
            /\ SpawnCount <= 1
            /\ child # "none" => SpawnCount = 1
            /\ pc = "n_some" => Len(call.ret) \in call.args[1]
            /\ pc = "n_none" => call.args[1] = {})
    /\ [][NativeCalled /\ pc' = "x_spawn" => pc \in {"n_some", "n_none"}]_vars
    /\ [][NativeCalled /\ pc = "x_spawn" => pc' \in {"x_stdin", "x_done"}]_vars
    /\ (NativeTrying ~> pc \in {"x_stdin", "x_done"})

\* the kernel rejected the two stronger sets and accepted the weakest, and the
\* command has run to its end
C31_Witness ==
    /\ NativeCalled /\ call.args[1] = {3} /\ Len(call.ret) = 3
    /\ pc = "x_done" /\ child = "reaped"

LedgerShared == ledger # NoLedger
\* the body of a call of thread t has run and the call has not returned yet
LedgerBodyRan(t) == ledger.th[t].pc = "unlock"
\* the step is the body of a call of op, made by thread t for run_id id
LedgerBodyStep(t, op, id) ==
    /\ ledger.th[t].pc = "body" /\ ledger'.th[t].pc = "unlock"
    /\ ledger.th[t].op = op /\ ledger.th[t].id = id

\* C32: the ledger is a map by run_id whose calls take effect one at a time:
\* a get returns the record of the latest put for its run_id, or None; a get
\* leaves the map as it is; a put changes no record but that of its run_id
C32_LedgerLinearizable ==
    /\ [](LedgerShared =>
            /\ \A i \in LedgerIds : ledger.inner[i] = ledger.last[i]
            /\ \A t \in LedgerThreads :
                  (LedgerBodyRan(t) /\ ledger.th[t].op = "get")
                  => ledger.th[t].ret = <<ledger.last[ledger.th[t].id]>>
            /\ Cardinality({t \in LedgerThreads : ledger.th[t].pc \in {"body", "unlock"}}) <= 1)
    /\ [][\A t \in LedgerThreads, i \in LedgerIds :
            LedgerShared /\ LedgerBodyStep(t, "get", i) => ledger'.inner = ledger.inner]_vars
    /\ [][\A t \in LedgerThreads, i \in LedgerIds :
            LedgerShared /\ LedgerBodyStep(t, "put", i)
            => /\ ledger'.inner[i] = <<ledger.th[t].rec>>
               /\ \A j \in LedgerIds \ {i} : ledger'.inner[j] = ledger.inner[j]]_vars

\* a thread reads the record of a run_id, which is not the first one put for
\* it, while the other thread is waiting for the lock
C32_Witness ==
    /\ LedgerShared
    /\ \E t \in LedgerThreads, u \in LedgerThreads :
          /\ LedgerBodyRan(t) /\ ledger.th[t].op = "get" /\ ledger.th[u].pc = "lock"
          /\ ledger.th[t].ret = <<<<ledger.th[u].rec>>>>
          /\ ledger.th[u].n = 1 /\ ledger.th[t].n = 1

\* the call of grade under observation has returned
GradeReturned == call.fn = "grade" /\ call.done

\* 1 for a condition that holds, 0 for one that does not
Ind(b) == IF b THEN 1 ELSE 0

GradingTab ==
    {[th |-> DefaultThresholds, green_max |-> 20, yellow_max |-> 60],
     [th |-> StrictThresholds, green_max |-> 10, yellow_max |-> 20],
     [th |-> CustomThresholds, green_max |-> 10, yellow_max |-> 50]}

VerdictUnder(th, score) ==
    LET g == CHOOSE x \in GradingTab : x.th = th IN
    IF score <= g.green_max THEN "green"
    ELSE IF score <= g.yellow_max THEN "yellow"
    ELSE "red"

\* C34: the verdict grade returns is the one the thresholds of policy.grading
\* select for the score, and the one the default thresholds select when the
\* policy has no grading
C34_PolicyThresholds ==
    GradeReturned
    => call.ret[1].verdict =
          VerdictUnder(IF call.args.policy.grading # <<>>
                       THEN call.args.policy.grading[1].thresholds
                       ELSE DefaultThresholds,
                       call.ret[1].risk_score)

\* C35: whenever the worker has published the result of a run on
\* run.res.<run_id>, the publisher of the request was subscribed to that
\* subject before, so that the result reaches it
C35_SubscribedBeforeResult ==
    (requester # NoRequester /\ ResultPublished)
    => requester.pc \in {"subscribed", "received"} /\ ~requester.missed

\* the child ends by itself with its code once what it writes is taken and
\* what it is given is handed over: nothing but the supervisor holds it
HeldBySupervisor == beh.code # <<>> /\ ~output_written(beh)

\* C36: a child that exits by itself is reaped with its own exit code and
\* not reported as timed out, also when it writes more than a pipe holds or
\* does not read a large stdin
C36_NoFalseTimeout ==
    /\ (child = "killed" \/ loc.timed_out) => ~HeldBySupervisor
    /\ (child = "reaped" /\ pc = "exited") => res.exit_code = beh.code[1] /\ ~loc.timed_out

\* C37: an error item of the message stream does not end the worker: the
\* loop is only left when the stream ends
C37_ErrorItemSurvived == impl \in {"magicrune", "js_consumer"} => pc # "stopped_on_error"

\* the step takes a message from the stream
FetchStep == pc = "fetch" /\ pc' \in {"fetch", "parse"}
\* the step takes a message that the DedupeRing suppresses
SuppressStep == FetchStep /\ pc' = "fetch"
\* the step hands a result whose verdict is red to js.publish
PublishRedStep ==
    /\ pc = "publish" /\ pc' = "ack"
    /\ res'.verdict = "red"

\* C38: count_total counts the messages fetched, count_dupe the deliveries
\* the DedupeRing suppressed, count_red the published results whose verdict
\* is red, and count_dupe + count_red never exceeds count_total
C38_Counters ==
    /\ [](impl \in {"magicrune", "js_consumer"} => count_dupe + count_red <= count_total)
    /\ [][(impl # "cli")
            => /\ count_total' = count_total + Ind(FetchStep)
               /\ count_dupe' = count_dupe + Ind(SuppressStep)
               /\ count_red' = count_red + Ind(PublishRedStep)]_vars

\* the CLI has found network intent and a non-empty allowlist, and the
\* request has just passed the network check
NetCheckPassed ==
    /\ impl = "cli" /\ pc = "c_timeout"
    /\ net_intent(CliReq.cmd)
    /\ CliReq.allow_net \o policy.net_allow # <<>>

\* C39: a request with network intent passes the network check under a
\* non-empty allowlist only if at least one endpoint was extracted from its
\* command and every extracted endpoint matches an entry of the allowlist
C39_NoPassWithoutEndpoint ==
    NetCheckPassed
    => LET hosts == extract_http_hosts(CliReq.cmd)
           allowed == CliReq.allow_net \o policy.net_allow
       IN  /\ hosts # <<>>
           /\ \A i \in 1..Len(hosts) : \E j \in 1..Len(allowed) :
                 allowed_match(hostport_parts(hosts[i]).host, hostport_parts(hosts[i]).port,
                               allowed[j])

\* the call of the library executor has returned without a child: the shell
\* could not be spawned
SpawnFailedReturned == impl = "sandbox" /\ pc = "x_done" /\ child = "none"

\* C40: when the shell cannot be spawned, the outcome the library executor
\* returns has a non-zero exit_code
C40_SpawnFailureReported == SpawnFailedReturned => loc.exit_code # 0

====
